---- MODULE Spec2Model ----
(***************************************************************************)
(* One call of the voice bridge: the orchestrator websocket_endpoint and   *)
(* the four coroutines it gathers (send_to_twilio, forward_audio_to_gemini,*)
(* receive_from_gemini, baml_processing_loop), scheduled cooperatively by  *)
(* asyncio.  A step of the model is the code a coroutine runs between two  *)
(* suspension points (await); the transport peer, the voice model and the  *)
(* extraction service are the environment.                                 *)
(***************************************************************************)
EXTENDS Integers, Sequences, FiniteSets, TLC

\* ---------------------------------------------------------------- bounds
\* longest byte string handed to chunk_mulaw_20ms
MaxBytes == 325
\* model events delivered to receive_from_gemini during the call
MaxEvents == 3
\* granularity of the discrete clock, in milliseconds
TickMs == 20

\* messages the peer sends to the forwarder while they are written down
MaxInbound == 3
\* consecutive calls of one caller address
MaxCalls == 2
\* filters supplied together in one show_top_cars call
MaxFilters == 2

\* ------------------------------------------------------- program constants
\* twilio_utils.py: `if delta < 0.02`, the pacing budget of one frame (ms)
FrameBudgetMs == 20
\* utils.py: `frame = 160`, the bytes of one 20 ms frame
FrameBytes == 160

NoText == "none"

VARIABLES
    RUN_LOCAL,          \* app.py: the stores are plain dicts (TRUE) or modal.Dict (FALSE)
    callNo,             \* calls of the caller address so far, the current one included
    USER_SESSIONS,      \* USER_SESSIONS[from_number]: <<>> without an entry, else <<entry>>
    orchPc,             \* websocket_endpoint: connecting, opening, active, closed, raised
    orchMsg,            \* websocket_endpoint: the local `msg`, <<>> before the first message
    stream_sid,         \* websocket_endpoint: the local `stream_sid`
    saved,              \* records written by save_profile
    cleanupLog,         \* effects of the finally block, in program order
    ws,                 \* telephony transport: "open" or "closed"
    gs,                 \* voice-model session: "none", "open", "closed"
    wire,               \* events sent on the transport, in send order
    end_call,           \* asyncio.Event, the cancellation signal
    user_interrupt,     \* asyncio.Event, the interruption flag
    send_twililo_queue, \* asyncio.Queue of audio parts (frame counts)
    sndPc,              \* send_to_twilio: idle, top, pause, get, pace, frame, done, raised
    sndPart,            \* id of the part being emitted (0: none)
    sndIdx,             \* frames of the current part already sent
    sndFrames,          \* frames of the current part
    elapsed,            \* time.perf_counter() - last_send, saturating at the budget
    sinceSend,          \* time since the last media frame of the part being emitted, saturating
    stale,              \* an interruption happened since the current part was dequeued
    rcvPc,              \* receive_from_gemini: idle, recv, hui_flush, drain, term_sleep,
                        \* term_close, done, raised
    inbox,              \* the model event being delivered / processed (at most one)
    emitted,            \* model events emitted so far
    enqueued,           \* audio parts put on the queue so far
    termCall,           \* name of the terminal call being executed
    htcResult,          \* outcome of the last handle_tool_calls: none, empty, list, raised
    executed,           \* indices of the calls of the last batch that were executed
    toolResponses,      \* response batches sent to the model, in order
    redirected,         \* the call leg was redirected to HUMAN_NUMBER
    announced,          \* the hold announcement was played on the call leg
    fwdPc,              \* forward_audio_to_gemini: idle, recv, sent, done, stopped, raised
    received,           \* messages forward_audio_to_gemini took from the transport (observed)
    realtime_inputs,    \* audio inputs handed to gs.send_realtime_input (observed)
    extPc,              \* baml_processing_loop: idle, sleep, extract, done
    extracted,          \* outcome of the last extraction tick: none, failed, or the answer
    conversation_text,  \* baml_processing_loop: the text sent with the last requests
    transcript,         \* session.transcript
    profile,            \* session.renter_profile.profile
    questions,          \* session.renter_profile.questions
    after_hours,        \* can_transfer_to_human: `now.hour >= after_hours`
    mulaw_bytes,        \* chunk_mulaw_20ms: the byte string to split
    chunked,            \* chunk_mulaw_20ms: the list of frames returned
    CAR_DATABASE,       \* db.CAR_DATABASE, the static car list
    kwargs,             \* show_top_cars: the keyword arguments of the call
    top_cars,           \* show_top_cars: the list returned
    returned            \* show_top_cars has returned

callVars == <<RUN_LOCAL, callNo>>
orchVars == <<orchPc, saved, cleanupLog>>
startVars == <<orchMsg, stream_sid>>
netVars == <<ws, gs, wire>>
flagVars == <<end_call, user_interrupt, send_twililo_queue>>
sndVars == <<sndPc, sndPart, sndIdx, sndFrames, stale>>
rcvVars == <<rcvPc, inbox, emitted, enqueued, termCall, htcResult, executed, toolResponses, redirected,
            announced>>
fwdVars == <<fwdPc>>
audioVars == <<received, realtime_inputs>>
extVars == <<extPc, extracted, conversation_text>>
sessVars == <<transcript, profile, questions>>
clockVars == <<after_hours>>
chunkVars == <<mulaw_bytes, chunked>>
queryVars == <<CAR_DATABASE, kwargs, top_cars, returned>>
vars == <<callVars, USER_SESSIONS, startVars, audioVars, clockVars, queryVars, orchVars, netVars, flagVars, sndVars, elapsed, sinceSend, rcvVars, fwdVars, extVars, sessVars,
         chunkVars>>

\* ------------------------------------------------------------ data
\* Events sent on the transport; each carries the stream id of the call.
Media(p, i) == [event |-> "media", streamSid |-> stream_sid, part |-> p, frame |-> i]
Clear == [event |-> "clear", streamSid |-> stream_sid, part |-> 0, frame |-> 0]
Close == [event |-> "close", streamSid |-> stream_sid, part |-> 0, frame |-> 0]

\* Messages of the telephony peer.  A payload is the base64 text of its bytes.
b64encode(bytes) == <<"b64", bytes>>
StartMsg(sid) == [event |-> "start", streamSid |-> sid]
MediaMsg(sid, bytes) ==
    [event |-> "media", streamSid |-> sid, media |-> [payload |-> b64encode(bytes)]]
ClosedMsg == [event |-> "closed"]
MarkMsg == [event |-> "mark"]

\* dict.get: the value of the key, None without it.
get(m, k) == IF k \in DOMAIN m THEN m[k] ELSE "None"

EmptyProfile == [name |-> 0, car_preferences |-> <<>>]

\* types.CallerData of a caller without history.
EmptyCallerData == [profile |-> EmptyProfile, questions |-> <<>>]

\* Outcome of an extraction tick of baml_processing_loop.
NoExtraction == [kind |-> "none"]
FailedExtraction == [kind |-> "failed"]
Extraction(r) == [kind |-> "answer", profile |-> r.profile, questions |-> r.questions]

TerminalTools == {"transfer_to_human", "end_call"}

TOOLS == {"show_top_cars", "can_transfer_to_human", "transfer_to_human",
          "can_end_call", "end_call"}

Call(n, a) == [name |-> n, args |-> a]

\* A server message of the live session; every field is optional.
Event(inp, intr, calls, turn, parts, outp, tc) ==
    [input |-> inp, interrupted |-> intr, calls |-> calls, turn |-> turn,
     parts |-> parts, output |-> outp, turn_complete |-> tc]

\* a model turn with a part without audio and an audio part of two frames
EvAudio == Event(NoText, FALSE, <<>>, TRUE, <<0, 2>>, "a1", FALSE)
EvBargeIn == Event("c1", TRUE, <<>>, FALSE, <<>>, NoText, FALSE)
EvTransfer ==
    Event(NoText, FALSE, <<Call("transfer_to_human", "none")>>, FALSE, <<>>, NoText, FALSE)
EvBatch ==
    Event(NoText, FALSE,
          <<Call("get_caller_profile", "none"), Call("end_call", "none"),
            Call("can_end_call", "none")>>,
          FALSE, <<>>, NoText, FALSE)
EvToolAudio ==
    Event(NoText, FALSE, <<Call("can_end_call", "none")>>, TRUE, <<1>>, NoText, FALSE)
EvTurnComplete == Event(NoText, FALSE, <<>>, FALSE, <<>>, NoText, TRUE)

SpecEvents == {EvAudio, EvBargeIn, EvTransfer, EvTurnComplete}

InboundMessages == {StartMsg("MZ1"), MediaMsg("MZ1", <<255>>), ClosedMsg, MarkMsg}

Min(a, b) == IF a < b THEN a ELSE b
Max(a, b) == IF a > b THEN a ELSE b

\* Keyword arguments of show_top_cars.  An optional argument is <<>> when it
\* is not supplied (None) and <<v>> when it is supplied with the value v;
\* order_by and top_n carry their defaults.
NoFilters ==
    [makes |-> <<>>, models |-> <<>>, year_gte |-> <<>>, year_lte |-> <<>>,
     budget_low |-> <<>>, budget_high |-> <<>>, car_type |-> <<>>, sale_type |-> <<>>,
     fuel_efficiency_gte |-> <<>>, features |-> <<>>, horsepower_gte |-> <<>>,
     seats_gte |-> <<>>]

FilterNames == DOMAIN NoFilters

DefaultArgs == [filters |-> NoFilters, order_by |-> "price", top_n |-> 5]

\* No show_top_cars call is under way.
NoQuery ==
    /\ CAR_DATABASE = <<>>
    /\ kwargs = DefaultArgs
    /\ top_cars = <<>>
    /\ returned = FALSE

\* ------------------------------------------------------------ initial state
\* The first call of a caller address right after twilio_webhook and
\* ws.accept().
SessionInit ==
    /\ callNo = 1
    /\ USER_SESSIONS = <<EmptyCallerData>>
    /\ orchPc = "connecting"
    /\ orchMsg = <<>>
    /\ stream_sid = "unbound"
    /\ saved = <<>>
    /\ cleanupLog = <<>>
    /\ ws = "open"
    /\ gs = "none"
    /\ wire = <<>>
    /\ end_call = FALSE
    /\ user_interrupt = FALSE
    /\ send_twililo_queue = <<>>
    /\ sndPc = "idle"
    /\ sndPart = 0
    /\ sndIdx = 0
    /\ sndFrames = 0
    /\ elapsed = FrameBudgetMs
    /\ sinceSend = FrameBudgetMs
    /\ stale = FALSE
    /\ rcvPc = "idle"
    /\ inbox = <<>>
    /\ emitted = 0
    /\ enqueued = 0
    /\ termCall = "none"
    /\ htcResult = "none"
    /\ executed = <<>>
    /\ toolResponses = <<>>
    /\ redirected = FALSE
    /\ announced = FALSE
    /\ fwdPc = "idle"
    /\ received = <<>>
    /\ realtime_inputs = <<>>
    /\ extPc = "idle"
    /\ extracted = NoExtraction
    /\ conversation_text = <<>>
    /\ after_hours = FALSE
    /\ transcript = <<>>
    /\ profile = EmptyProfile
    /\ questions = <<>>

Init ==
    /\ RUN_LOCAL = FALSE
    /\ SessionInit
    /\ mulaw_bytes = <<>>
    /\ chunked = <<>>
    /\ NoQuery

\* ------------------------------------------------------------ environment
\* The clock advances; both durations saturate at the pacing budget.
Tick ==
    /\ elapsed < FrameBudgetMs \/ sinceSend < FrameBudgetMs
    /\ elapsed' = Min(elapsed + TickMs, FrameBudgetMs)
    /\ sinceSend' = Min(sinceSend + TickMs, FrameBudgetMs)
    /\ UNCHANGED <<callVars, USER_SESSIONS, startVars, audioVars, clockVars, chunkVars, queryVars, orchVars, netVars, flagVars, sndVars, rcvVars, fwdVars, extVars, sessVars>>

\* The telephony peer drops the connection.
PeerDrop ==
    /\ ws = "open"
    /\ orchPc \in {"connecting", "opening", "active"}
    /\ ws' = "closed"
    /\ UNCHANGED <<callVars, USER_SESSIONS, startVars, audioVars, clockVars, chunkVars, queryVars, orchVars, gs, wire, flagVars, sndVars, elapsed, sinceSend, rcvVars,
                   fwdVars, extVars, sessVars>>

\* The voice-model connection drops.
ModelDrop ==
    /\ gs = "open"
    /\ inbox = <<>>
    /\ gs' = "closed"
    /\ UNCHANGED <<callVars, USER_SESSIONS, startVars, audioVars, clockVars, chunkVars, queryVars, orchVars, ws, wire, flagVars, sndVars, elapsed, sinceSend, rcvVars,
                   fwdVars, extVars, sessVars>>

\* The voice model emits its next server message.
ModelEmit(E) ==
    /\ gs = "open"
    /\ inbox = <<>>
    /\ emitted < MaxEvents
    /\ \E e \in E : inbox' = <<e>>
    /\ emitted' = emitted + 1
    /\ UNCHANGED <<callVars, USER_SESSIONS, startVars, audioVars, clockVars, chunkVars, queryVars, orchVars, netVars, flagVars, sndVars, elapsed, sinceSend, rcvPc, enqueued, termCall,
                   htcResult, executed, toolResponses, redirected, announced, fwdVars, extVars, sessVars>>

\* ------------------------------------------------------------ orchestrator
\* CallSession.__init__: the identity of the call.  The timestamps are kept
\* as the expressions that produce them.
call_sid == <<"CA", callNo>>
caller_number == "+15550100"
start_time == "start_time"
now == "datetime.now()"

\* A rendering that drops the speaker prefix.
get_conversation_text_TextOnly(t) == [i \in 1..Len(t) |-> <<t[i].text>>]

\* CallSession.get_conversation_text: one "speaker: text" line per entry.
get_conversation_text(t) == [i \in 1..Len(t) |-> <<t[i].speaker, ": ", t[i].text>>]

\* CallSession.save_profile: the file written to the profiles directory, its
\* name and its JSON content.  session.intents and session.questions are
\* never written to during a call; the extracted questions are part of
\* renter_profile.
save_profile ==
    [filename |-> <<caller_number, "_profile_", call_sid, "_", start_time, ".json">>,
     data |-> [call_sid |-> call_sid,
               start_time |-> start_time,
               end_time |-> now,
               transcript |-> get_conversation_text(transcript),
               intents |-> <<>>,
               questions |-> <<>>,
               renter_profile |-> [profile |-> profile, questions |-> questions]]]

\* session.renter_profile after `if caller_data: session.renter_profile =
\* caller_data`: the entry of the caller address, the session's own without one.
Loaded == IF USER_SESSIONS # <<>> THEN USER_SESSIONS[1]
          ELSE [profile |-> profile, questions |-> questions]

\* A CONNECTING loop that leaves on the first message carrying a stream id.
websocket_endpoint_ConnectingAnyStream(M) ==
    /\ orchPc = "connecting"
    /\ \/ /\ ws = "open"
          /\ \E m \in M :
                /\ orchMsg' = <<m>>
                /\ IF "streamSid" \in DOMAIN m
                   THEN /\ orchPc' = "opening"
                        /\ stream_sid' = m.streamSid
                        /\ profile' = Loaded.profile
                        /\ questions' = Loaded.questions
                   ELSE /\ orchPc' = "connecting"
                        /\ UNCHANGED <<stream_sid, profile, questions>>
       \/ /\ ws = "closed"
          /\ orchPc' = "raised"
          /\ UNCHANGED <<startVars, profile, questions>>
    /\ UNCHANGED <<callVars, USER_SESSIONS, audioVars, clockVars, chunkVars, queryVars, saved, cleanupLog, ws, gs, wire, flagVars, sndVars, elapsed, sinceSend, rcvVars,
                   fwdVars, extVars, transcript>>

\* websocket_endpoint, CONNECTING: wait for the `start` message, take its
\* stream id and load the stored data of the caller address into the session.
\* The loop is outside the try block, so an error of receive_json or a
\* `start` message without a stream id leaves the function.
websocket_endpoint_Connecting(M) ==
    /\ orchPc = "connecting"
    /\ \/ /\ ws = "open"
          /\ \E m \in M :
                /\ orchMsg' = <<m>>
                /\ IF get(m, "event") # "start"
                   THEN /\ orchPc' = "connecting"
                        /\ UNCHANGED <<stream_sid, profile, questions>>
                   ELSE IF "streamSid" \in DOMAIN m
                   THEN /\ orchPc' = "opening"
                        /\ stream_sid' = m.streamSid
                        /\ profile' = Loaded.profile
                        /\ questions' = Loaded.questions
                   ELSE /\ orchPc' = "raised"
                        /\ UNCHANGED <<stream_sid, profile, questions>>
       \/ /\ ws = "closed"
          /\ orchPc' = "raised"
          /\ UNCHANGED <<startVars, profile, questions>>
    /\ UNCHANGED <<callVars, USER_SESSIONS, audioVars, clockVars, chunkVars, queryVars, saved, cleanupLog, ws, gs, wire, flagVars, sndVars, elapsed, sinceSend, rcvVars,
                   fwdVars, extVars, transcript>>

\* The finally block without `except Exception: pass` around ws.close():
\* the error of closing a closed transport leaves the function.
FinallyCloseErrorEscapes ==
    /\ USER_SESSIONS' = <<[profile |-> profile, questions |-> questions]>>
    /\ saved' = Append(saved, save_profile)
    /\ end_call' = TRUE
    /\ ws' = "closed"
    /\ cleanupLog' = <<"persist", "cancel", "close">>
    /\ orchPc' = IF ws = "closed" THEN "raised" ELSE "closed"

\* A finally block that resets the cancellation signal.
FinallyClearsSignal ==
    /\ USER_SESSIONS' = <<[profile |-> profile, questions |-> questions]>>
    /\ saved' = Append(saved, save_profile)
    /\ end_call' = FALSE
    /\ ws' = "closed"
    /\ cleanupLog' = <<"persist", "cancel", "close">>
    /\ orchPc' = "closed"

\* The finally block: store the session and its caller data, persist it, set the cancellation
\* signal, close the transport (an Exception of close is swallowed).
Finally ==
    /\ USER_SESSIONS' = <<[profile |-> profile, questions |-> questions]>>
    /\ saved' = Append(saved, save_profile)
    /\ end_call' = TRUE
    /\ ws' = "closed"
    /\ cleanupLog' = <<"persist", "cancel", "close">>
    /\ orchPc' = "closed"

\* The model session opens and the four loops are gathered: each runs to its
\* first suspension point.
websocket_endpoint_Gather ==
    /\ orchPc = "opening"
    /\ orchPc' = "active"
    /\ gs' = "open"
    /\ sndPc' = "get"
    /\ rcvPc' = "recv"
    /\ fwdPc' = "recv"
    /\ extPc' = "sleep"
    /\ UNCHANGED <<callVars, USER_SESSIONS, startVars, audioVars, clockVars, chunkVars, queryVars, saved, cleanupLog, ws, wire, flagVars, sndPart, sndIdx,
                   sndFrames, stale, elapsed, sinceSend, inbox, emitted, enqueued, termCall,
                   htcResult, executed, toolResponses, redirected, announced, extracted,
                   conversation_text, sessVars>>

\* client.aio.live.connect raises: caught by the try, the finally block runs.
websocket_endpoint_ConnectFails ==
    /\ orchPc = "opening"
    /\ Finally
    /\ gs' = "closed"
    /\ UNCHANGED <<callVars, startVars, audioVars, clockVars, chunkVars, queryVars, wire, user_interrupt, send_twililo_queue, sndVars, elapsed, sinceSend,
                   rcvVars, fwdVars, extVars, sessVars>>

Exited(pc) == pc \in {"done", "stopped"}

\* asyncio.gather returns when all four loops have returned.
websocket_endpoint_GatherReturns ==
    /\ orchPc = "active"
    /\ Exited(sndPc) /\ Exited(rcvPc) /\ Exited(fwdPc) /\ Exited(extPc)
    /\ Finally
    /\ gs' = "closed"
    /\ UNCHANGED <<callVars, startVars, audioVars, clockVars, chunkVars, queryVars, wire, user_interrupt, send_twililo_queue, sndVars, elapsed, sinceSend,
                   rcvVars, fwdVars, extVars, sessVars>>

\* asyncio.gather propagates the first exception of a loop; the other loops
\* are not cancelled and keep running.
websocket_endpoint_GatherRaises ==
    /\ orchPc = "active"
    /\ "raised" \in {sndPc, rcvPc, fwdPc}
    /\ Finally
    /\ UNCHANGED <<callVars, startVars, audioVars, clockVars, chunkVars, queryVars, gs, wire, user_interrupt, send_twililo_queue, sndVars,
                   elapsed, sinceSend, rcvVars, fwdVars, extVars, sessVars>>

\* ------------------------------------------------------------ send_to_twilio
\* ws.send_json of one media frame; it raises on a closed transport.
SendFrame ==
    IF ws = "open"
    THEN /\ wire' = Append(wire, Media(sndPart, sndIdx + 1))
         /\ sndIdx' = sndIdx + 1
         /\ sinceSend' = 0
         /\ sndPc' = "frame"
    ELSE /\ sndPc' = "raised"
         /\ UNCHANGED <<wire, sndIdx, sinceSend>>

\* A queue that hands out its newest item first.
DequeueNewest ==
    LET part == send_twililo_queue[Len(send_twililo_queue)] IN
    /\ send_twililo_queue' = SubSeq(send_twililo_queue, 1, Len(send_twililo_queue) - 1)
    /\ stale' = FALSE
    /\ IF part.frames = 0
       THEN /\ sndPc' = "top"
            /\ UNCHANGED <<sndPart, sndIdx, sndFrames, elapsed, sinceSend, wire>>
       ELSE /\ elapsed' = 0
            /\ UNCHANGED sinceSend
            /\ sndPart' = part.id
            /\ sndFrames' = part.frames
            /\ sndIdx' = 0
            /\ sndPc' = IF user_interrupt THEN "top" ELSE "pace"
            /\ UNCHANGED wire

\* A dequeued part: skipped when it carries no audio, otherwise converted,
\* last_send is taken and the frame loop starts.
Dequeue ==
    LET part == Head(send_twililo_queue) IN
    /\ send_twililo_queue' = Tail(send_twililo_queue)
    /\ stale' = FALSE
    /\ IF part.frames = 0
       THEN /\ sndPc' = "top"
            /\ UNCHANGED <<sndPart, sndIdx, sndFrames, elapsed, sinceSend, wire>>
       ELSE /\ elapsed' = 0
            /\ UNCHANGED sinceSend
            /\ sndPart' = part.id
            /\ sndFrames' = part.frames
            /\ sndIdx' = 0
            /\ sndPc' = IF user_interrupt THEN "top" ELSE "pace"
            /\ UNCHANGED wire

\* Head of the while loop.
send_to_twilio_Top ==
    /\ sndPc = "top"
    /\ IF end_call
       THEN /\ sndPc' = "done"
            /\ UNCHANGED <<send_twililo_queue, sndPart, sndIdx, sndFrames, stale, elapsed,
                           sinceSend, wire>>
       ELSE IF user_interrupt
       THEN /\ sndPc' = "pause"
            /\ UNCHANGED <<send_twililo_queue, sndPart, sndIdx, sndFrames, stale, elapsed,
                           sinceSend, wire>>
       ELSE IF send_twililo_queue = <<>>
       THEN /\ sndPc' = "get"
            /\ UNCHANGED <<send_twililo_queue, sndPart, sndIdx, sndFrames, stale, elapsed,
                           sinceSend, wire>>
       ELSE Dequeue
    /\ UNCHANGED <<callVars, USER_SESSIONS, startVars, audioVars, clockVars, chunkVars, queryVars, orchVars, ws, gs, end_call, user_interrupt, rcvVars, fwdVars,
                   extVars, sessVars>>

\* asyncio.sleep(0.05) while interrupted is over: `continue`.
send_to_twilio_Wake ==
    /\ sndPc = "pause"
    /\ sndPc' = "top"
    /\ UNCHANGED <<callVars, USER_SESSIONS, startVars, audioVars, clockVars, chunkVars, queryVars, orchVars, netVars, flagVars, sndPart, sndIdx, sndFrames, stale, elapsed,
                   sinceSend,
                   rcvVars, fwdVars, extVars, sessVars>>

\* `await send_twililo_queue.get()` returns: neither flag is looked at.
send_to_twilio_Get ==
    /\ sndPc = "get"
    /\ send_twililo_queue # <<>>
    /\ Dequeue
    /\ UNCHANGED <<callVars, USER_SESSIONS, startVars, audioVars, clockVars, chunkVars, queryVars, orchVars, ws, gs, end_call, user_interrupt, rcvVars, fwdVars,
                   extVars, sessVars>>

\* asyncio.sleep(0.02 - delta) is over: the frame is sent without looking at
\* the interruption flag again.
send_to_twilio_Paced ==
    /\ sndPc = "pace"
    /\ elapsed = FrameBudgetMs
    /\ SendFrame
    /\ UNCHANGED <<callVars, USER_SESSIONS, startVars, audioVars, clockVars, chunkVars, queryVars, orchVars, ws, gs, flagVars, sndPart, sndFrames, stale, elapsed,
                   rcvVars, fwdVars, extVars, sessVars>>

\* ws.send_json returned: next iteration of the frame loop.  last_send is
\* never updated inside the loop, so delta is measured from the dequeue.
send_to_twilio_Frame ==
    /\ sndPc = "frame"
    /\ IF sndIdx = sndFrames \/ user_interrupt
       THEN /\ sndPc' = "top"
            /\ sndPart' = 0
            /\ sndIdx' = 0
            /\ sndFrames' = 0
            /\ stale' = FALSE
            /\ sinceSend' = FrameBudgetMs
            /\ UNCHANGED wire
       ELSE IF elapsed < FrameBudgetMs
       THEN /\ sndPc' = "pace"
            /\ UNCHANGED <<sndPart, sndIdx, sndFrames, stale, sinceSend, wire>>
       ELSE /\ SendFrame
            /\ UNCHANGED <<sndPart, sndFrames, stale>>
    /\ UNCHANGED <<callVars, USER_SESSIONS, startVars, audioVars, clockVars, chunkVars, queryVars, orchVars, ws, gs, flagVars, elapsed, rcvVars, fwdVars, extVars,
                   sessVars>>

\* ------------------------------------------------------------ handle_tool_calls
\* A FunctionResponse that does not carry the id of its call.
ResponseNoId(i, n, r) == [id |-> 0, name |-> n, response |-> r]

\* gt.FunctionResponse(id=fc.id, name=fc.name, response=result); the id of a
\* call is its position in the batch.
Response(i, n, r) == [id |-> i, name |-> n, response |-> r]

\* What a registered handler returns: the advisory tools answer with a
\* boolean (can_end_call always True, can_transfer_to_human True before
\* 5 pm), the other tools with their payload.
ToolReturn(name) ==
    IF name = "can_end_call" THEN <<name, "True">>
    ELSE IF name = "can_transfer_to_human"
    THEN <<name, IF after_hours THEN "False" ELSE "True">>
    ELSE <<name>>

\* A lookup that treats an unregistered name like a registered handler.
HandlerResultAnyName(fc) ==
    IF fc.args = "bad"
    THEN [kind |-> "error", data |-> <<"Tool call failed: ", fc.name>>]
    ELSE [kind |-> "result", data |-> ToolReturn(fc.name)]

\* `handler = TOOLS.get(fc.name)`: the handler's result, an error entry when it
\* raises (arguments it does not accept), an error entry for an unknown name.
HandlerResult(fc) ==
    IF fc.name \in TOOLS
    THEN IF fc.args = "bad"
         THEN [kind |-> "error", data |-> <<"Tool call failed: ", fc.name>>]
         ELSE [kind |-> "result", data |-> ToolReturn(fc.name)]
    ELSE [kind |-> "error", data |-> <<"Unknown tool: ", fc.name>>]

\* The for loop without the try/except around the handler: the loop ends at
\* the first handler that raises.
RECURSIVE DispatchStopsAtError(_, _, _, _)
DispatchStopsAtError(calls, i, resp, exec) ==
    IF i > Len(calls)
    THEN [terminal |-> 0, responses |-> resp, executed |-> exec]
    ELSE LET fc == calls[i] IN
         IF fc.name = ""
         THEN DispatchStopsAtError(calls, i + 1, resp, exec)
         ELSE IF fc.name \in TerminalTools
         THEN [terminal |-> i, responses |-> resp, executed |-> exec]
         ELSE IF fc.name \in TOOLS /\ fc.args = "bad"
         THEN [terminal |-> 0, responses |-> resp, executed |-> exec]
         ELSE DispatchStopsAtError(calls, i + 1,
                                   Append(resp, Response(i, fc.name, HandlerResult(fc))),
                                   Append(exec, i))

\* The advisory tool of a terminal tool.
CanOf(name) == IF name = "end_call" THEN "can_end_call" ELSE "can_transfer_to_human"

\* The advisory tool of the terminal tool has answered True in this session.
Permitted(name) ==
    \E k \in 1..Len(toolResponses) : \E j \in 1..Len(toolResponses[k]) :
        /\ toolResponses[k][j].name = CanOf(name)
        /\ toolResponses[k][j].response = [kind |-> "result", data |-> <<CanOf(name), "True">>]

\* A dispatcher that enforces the can-before-do order: a terminal call that
\* was not permitted is answered with an error and the loop goes on.
RECURSIVE DispatchGated(_, _, _, _)
DispatchGated(calls, i, resp, exec) ==
    IF i > Len(calls)
    THEN [terminal |-> 0, responses |-> resp, executed |-> exec]
    ELSE LET fc == calls[i] IN
         IF fc.name = ""
         THEN DispatchGated(calls, i + 1, resp, exec)
         ELSE IF fc.name \in TerminalTools /\ Permitted(fc.name)
         THEN [terminal |-> i, responses |-> resp, executed |-> exec]
         ELSE IF fc.name \in TerminalTools
         THEN DispatchGated(calls, i + 1,
                            Append(resp, Response(i, fc.name,
                                                  [kind |-> "error",
                                                   data |-> <<"Not permitted: ", fc.name>>])),
                            Append(exec, i))
         ELSE IF fc.name = "get_caller_profile"
         THEN DispatchGated(calls, i + 1,
                            Append(resp, Response(i, fc.name,
                                                  [kind |-> "profile",
                                                   data |-> <<profile, questions>>])),
                            Append(exec, i))
         ELSE DispatchGated(calls, i + 1,
                            Append(resp, Response(i, fc.name, HandlerResult(fc))),
                            Append(exec, i))

\* A dispatcher without the local branch: get_caller_profile goes to the
\* registry like any other name.
RECURSIVE DispatchNoLocalProfile(_, _, _, _)
DispatchNoLocalProfile(calls, i, resp, exec) ==
    IF i > Len(calls)
    THEN [terminal |-> 0, responses |-> resp, executed |-> exec]
    ELSE LET fc == calls[i] IN
         IF fc.name = ""
         THEN DispatchNoLocalProfile(calls, i + 1, resp, exec)
         ELSE IF fc.name \in TerminalTools
         THEN [terminal |-> i, responses |-> resp, executed |-> exec]
         ELSE DispatchNoLocalProfile(calls, i + 1,
                                     Append(resp, Response(i, fc.name, HandlerResult(fc))),
                                     Append(exec, i))

\* The for loop over the batch up to its first terminal call (none: terminal = 0).
\* Handlers hold no suspension point, so this part of the loop is one step.
RECURSIVE Dispatch(_, _, _, _)
Dispatch(calls, i, resp, exec) ==
    IF i > Len(calls)
    THEN [terminal |-> 0, responses |-> resp, executed |-> exec]
    ELSE LET fc == calls[i] IN
         IF fc.name = ""
         THEN Dispatch(calls, i + 1, resp, exec)
         ELSE IF fc.name \in TerminalTools
         THEN [terminal |-> i, responses |-> resp, executed |-> exec]
         ELSE IF fc.name = "get_caller_profile"
         THEN Dispatch(calls, i + 1,
                       Append(resp, Response(i, fc.name,
                                             [kind |-> "profile",
                                              data |-> <<profile, questions>>])),
                       Append(exec, i))
         ELSE Dispatch(calls, i + 1,
                       Append(resp, Response(i, fc.name, HandlerResult(fc))),
                       Append(exec, i))

\* The event at the head of the async-for is finished: the next message is
\* awaited; after a turn_complete message gs.receive() ends and the while
\* condition is evaluated.
Complete(e, cancelled) ==
    /\ inbox' = <<>>
    /\ termCall' = "none"
    /\ rcvPc' = IF e.turn_complete /\ cancelled THEN "done" ELSE "recv"

\* Terminal branch once the queue is empty: for transfer_to_human the two
\* call-control requests, the hold announcement and then the redirect of the
\* call leg (either request can fail, and the second is not made when the
\* first fails), then asyncio.sleep(2).
TerminalEffects(e, name) ==
    \/ /\ announced' = (announced \/ name = "transfer_to_human")
       /\ redirected' = (redirected \/ name = "transfer_to_human")
       /\ rcvPc' = "term_sleep"
       /\ termCall' = name
       /\ htcResult' = "none"
       /\ UNCHANGED inbox
    \/ /\ name = "transfer_to_human"
       /\ announced' \in {announced, TRUE}
       /\ htcResult' = "raised"
       /\ Complete(e, end_call)
       /\ UNCHANGED redirected

\* ------------------------------------------------------------ receive_from_gemini
\* An entry that loses its speaker.
EntryAgentOnly(s, t) == [speaker |-> "agent", text |-> t]

\* TranscriptEntry(speaker=..., text=...)
Entry(s, t) == [speaker |-> s, text |-> t]

SenderMidPart == sndPc \in {"pace", "frame"} /\ sndIdx < sndFrames

\* Parts of a model turn with their ids, in order.
RECURSIVE Parts(_, _)
Parts(frames, n) ==
    IF frames = <<>> THEN <<>>
    ELSE <<[id |-> n + 1, frames |-> Head(frames)]>> \o Parts(Tail(frames), n + 1)

\* handle_user_interruption up to the await of ws.send_json: the flag is set,
\* then `clear` is sent (send_json raises on a closed transport).
handle_user_interruption_Set(e) ==
    /\ user_interrupt' = TRUE
    /\ stale' = (stale \/ SenderMidPart)
    /\ IF ws = "open"
       THEN /\ wire' = Append(wire, Clear)
            /\ rcvPc' = "hui_flush"
            /\ UNCHANGED <<inbox, termCall>>
       ELSE /\ Complete(e, end_call)
            /\ UNCHANGED wire

\* handle_tool_calls from its entry to its first suspension point or its end.
handle_tool_calls_Begin(e) ==
    LET d == Dispatch(e.calls, 1, <<>>, <<>>) IN
    /\ executed' = d.executed
    /\ IF d.terminal = 0
       THEN /\ htcResult' = "list"
            /\ toolResponses' = IF d.responses # <<>> /\ gs = "open"
                                THEN Append(toolResponses, d.responses)
                                ELSE toolResponses
            /\ Complete(e, end_call)
            /\ UNCHANGED <<redirected, announced>>
       ELSE IF send_twililo_queue = <<>>
       THEN /\ TerminalEffects(e, e.calls[d.terminal].name)
            /\ UNCHANGED toolResponses
       ELSE /\ rcvPc' = "drain"
            /\ termCall' = e.calls[d.terminal].name
            /\ htcResult' = "none"
            /\ UNCHANGED <<inbox, toolResponses, redirected, announced>>

\* Audio parts of a non-interrupted model turn, then the agent transcript.
ModelTurn(e) ==
    /\ IF e.turn
       THEN /\ user_interrupt' = FALSE
            /\ send_twililo_queue' = send_twililo_queue \o Parts(e.parts, enqueued)
            /\ enqueued' = enqueued + Len(e.parts)
       ELSE UNCHANGED <<user_interrupt, send_twililo_queue, enqueued>>
    /\ Complete(e, end_call)

\* One message of gs.receive(), from the top of the try block to the first
\* suspension point.
receive_from_gemini_Event ==
    /\ rcvPc = "recv"
    /\ inbox # <<>>
    /\ LET e == Head(inbox)
           heard == IF e.input # NoText /\ e.input # ""
                    THEN Append(transcript, Entry("caller", e.input))
                    ELSE transcript
       IN  IF e.interrupted
           THEN /\ transcript' = heard
                /\ handle_user_interruption_Set(e)
                /\ htcResult' = "none"
                /\ executed' = <<>>
                /\ UNCHANGED <<send_twililo_queue, enqueued, toolResponses, redirected, announced>>
           ELSE IF e.calls # <<>>
           THEN /\ transcript' = heard
                /\ handle_tool_calls_Begin(e)
                /\ UNCHANGED <<user_interrupt, send_twililo_queue, enqueued, stale, wire>>
           ELSE /\ transcript' = IF e.output # NoText
                                 THEN Append(heard, Entry("agent", e.output))
                                 ELSE heard
                /\ ModelTurn(e)
                /\ htcResult' = "none"
                /\ executed' = <<>>
                /\ UNCHANGED <<toolResponses, redirected, announced, stale, wire>>
    /\ UNCHANGED <<callVars, USER_SESSIONS, startVars, audioVars, clockVars, chunkVars, queryVars, orchVars, ws, gs, end_call, sndPc, sndPart, sndIdx, sndFrames,
                   elapsed, sinceSend, emitted, fwdVars, extVars, profile, questions>>

\* handle_user_interruption with a flush that takes one item only.
handle_user_interruption_FlushOne ==
    /\ rcvPc = "hui_flush"
    /\ send_twililo_queue' = IF send_twililo_queue = <<>> THEN <<>>
                             ELSE Tail(send_twililo_queue)
    /\ Complete(Head(inbox), end_call)
    /\ UNCHANGED <<callVars, USER_SESSIONS, startVars, audioVars, clockVars, chunkVars, queryVars, orchVars, netVars, end_call, user_interrupt, sndVars, elapsed, sinceSend, emitted,
                   enqueued, htcResult, executed, toolResponses, redirected, announced, fwdVars,
                   extVars, sessVars>>

\* handle_user_interruption that ends the session like a terminal tool.
handle_user_interruption_FlushEndsCall ==
    /\ rcvPc = "hui_flush"
    /\ send_twililo_queue' = <<>>
    /\ end_call' = TRUE
    /\ Complete(Head(inbox), TRUE)
    /\ UNCHANGED <<callVars, USER_SESSIONS, startVars, audioVars, clockVars, chunkVars, queryVars, orchVars, netVars, user_interrupt, sndVars, elapsed, sinceSend, emitted,
                   enqueued, htcResult, executed, toolResponses, redirected, announced, fwdVars,
                   extVars, sessVars>>

\* handle_user_interruption after ws.send_json returned: the queue is flushed.
handle_user_interruption_Flush ==
    /\ rcvPc = "hui_flush"
    /\ send_twililo_queue' = <<>>
    /\ Complete(Head(inbox), end_call)
    /\ UNCHANGED <<callVars, USER_SESSIONS, startVars, audioVars, clockVars, chunkVars, queryVars, orchVars, netVars, end_call, user_interrupt, sndVars, elapsed, sinceSend, emitted,
                   enqueued, htcResult, executed, toolResponses, redirected, announced, fwdVars,
                   extVars, sessVars>>

\* `while not send_twililo_queue.empty(): await asyncio.sleep(0.05)` ends.
handle_tool_calls_Drained ==
    /\ rcvPc = "drain"
    /\ send_twililo_queue = <<>>
    /\ TerminalEffects(Head(inbox), termCall)
    /\ UNCHANGED <<callVars, USER_SESSIONS, startVars, audioVars, clockVars, chunkVars, queryVars, orchVars, netVars, flagVars, sndVars, elapsed, sinceSend, emitted, enqueued,
                   executed, toolResponses, fwdVars, extVars, sessVars>>

\* A terminal branch that sends `close` without setting the signal first.
handle_tool_calls_CloseBeforeCancel ==
    /\ rcvPc = "term_sleep"
    /\ IF ws = "open"
       THEN /\ wire' = Append(wire, Close)
            /\ rcvPc' = "term_close"
            /\ UNCHANGED <<inbox, termCall, htcResult>>
       ELSE /\ htcResult' = "raised"
            /\ Complete(Head(inbox), end_call)
            /\ UNCHANGED wire
    /\ UNCHANGED <<callVars, USER_SESSIONS, startVars, audioVars, clockVars, chunkVars, queryVars, orchVars, ws, gs, flagVars, sndVars,
                   elapsed, sinceSend, emitted, enqueued, executed, toolResponses, redirected,
                   announced, fwdVars, extVars, sessVars>>

\* asyncio.sleep(2) is over: the cancellation signal is set and `close` is sent.
handle_tool_calls_Cancel ==
    /\ rcvPc = "term_sleep"
    /\ end_call' = TRUE
    /\ IF ws = "open"
       THEN /\ wire' = Append(wire, Close)
            /\ rcvPc' = "term_close"
            /\ UNCHANGED <<inbox, termCall, htcResult>>
       ELSE /\ htcResult' = "raised"
            /\ Complete(Head(inbox), TRUE)
            /\ UNCHANGED wire
    /\ UNCHANGED <<callVars, USER_SESSIONS, startVars, audioVars, clockVars, chunkVars, queryVars, orchVars, ws, gs, user_interrupt, send_twililo_queue, sndVars,
                   elapsed, sinceSend, emitted, enqueued, executed, toolResponses, redirected, announced,
                   fwdVars, extVars, sessVars>>

\* ws.close(code=1000) and `return []`; close raises on a closed transport.
handle_tool_calls_Close ==
    /\ rcvPc = "term_close"
    /\ ws' = "closed"
    /\ htcResult' = IF ws = "open" THEN "empty" ELSE "raised"
    /\ Complete(Head(inbox), end_call)
    /\ UNCHANGED <<callVars, USER_SESSIONS, startVars, audioVars, clockVars, chunkVars, queryVars, orchVars, gs, wire, flagVars, sndVars, elapsed, sinceSend, emitted,
                   enqueued, executed, toolResponses, redirected, announced, fwdVars, extVars, sessVars>>

\* gs.receive() raises on a dropped model connection: outside the try block.
receive_from_gemini_Raises ==
    /\ rcvPc = "recv"
    /\ inbox = <<>>
    /\ gs = "closed"
    /\ rcvPc' = "raised"
    /\ UNCHANGED <<callVars, USER_SESSIONS, startVars, audioVars, clockVars, chunkVars, queryVars, orchVars, netVars, flagVars, sndVars, elapsed, sinceSend, inbox, emitted, enqueued,
                   termCall, htcResult, executed, toolResponses, redirected, announced, fwdVars,
                   extVars, sessVars>>

\* ------------------------------------------------------------ forward_audio_to_gemini
\* base64.b64decode
b64decode(text) == text[2]

\* audioop.ulaw2lin: one 16-bit sample per byte.
ulaw2lin(byte) == <<"lin", byte>>

\* utils.mulaw_to_pcm16k: 8 kHz mu-law to 16 kHz PCM16, two samples for each
\* byte; empty data gives empty audio.
mulaw_to_pcm16k(data) ==
    IF data = <<>> THEN <<>>
    ELSE [i \in 1..(2 * Len(data)) |-> ulaw2lin(data[(i + 1) \div 2])]

\* A loop body that leaves the loop on every event that is not `media`.
TakesBreaksOnUnknown(m) ==
    /\ fwdPc = "recv"
    /\ ws = "open"
    /\ IF get(m, "event") = "media"
       THEN fwdPc' = IF gs = "open" THEN "sent" ELSE "raised"
       ELSE fwdPc' = "stopped"
    /\ UNCHANGED <<callVars, USER_SESSIONS, startVars, clockVars, chunkVars, queryVars, orchVars, ws, gs, wire, flagVars, sndVars, elapsed, sinceSend, rcvVars, extVars,
                   sessVars>>

\* The loop body for the message m of ws.receive_json(): `media` is converted
\* and handed to gs.send_realtime_input, `closed` breaks the loop, anything
\* else goes back to the loop head.
Takes(m) ==
    /\ fwdPc = "recv"
    /\ ws = "open"
    /\ IF get(m, "event") = "media"
       THEN fwdPc' = IF "media" \in DOMAIN m /\ gs = "open" THEN "sent" ELSE "raised"
       ELSE IF get(m, "event") = "closed"
       THEN fwdPc' = "stopped"
       ELSE fwdPc' = IF end_call THEN "done" ELSE "recv"
    /\ UNCHANGED <<callVars, USER_SESSIONS, startVars, clockVars, chunkVars, queryVars, orchVars, ws, gs, wire, flagVars, sndVars, elapsed, sinceSend, rcvVars, extVars,
                   sessVars>>

\* The audio input made of the message m.
RealtimeInput(m) ==
    [data |-> mulaw_to_pcm16k(b64decode(m.media.payload)), mime_type |-> "audio/pcm;rate=16000"]

\* One message of ws.receive_json(), taken from the messages M of the peer.
forward_audio_to_gemini_Receive(M) ==
    /\ \E m \in M : Takes(m)
    /\ UNCHANGED audioVars

\* The same step with the message and the audio input written down; the peer
\* sends at most MaxInbound messages.
forward_audio_to_gemini_Observed(M) ==
    /\ Len(received) < MaxInbound
    /\ \E m \in M :
          /\ Takes(m)
          /\ received' = Append(received, m)
          /\ realtime_inputs' =
                IF fwdPc' = "sent" THEN Append(realtime_inputs, RealtimeInput(m))
                ELSE realtime_inputs

\* gs.send_realtime_input returned: head of the while loop.
forward_audio_to_gemini_Sent ==
    /\ fwdPc = "sent"
    /\ fwdPc' = IF end_call THEN "done" ELSE "recv"
    /\ UNCHANGED <<callVars, USER_SESSIONS, startVars, audioVars, clockVars, chunkVars, queryVars, orchVars, netVars, flagVars, sndVars, elapsed, sinceSend, rcvVars,
                   extVars, sessVars>>

\* ws.receive_json() raises on a closed transport.
forward_audio_to_gemini_Raises ==
    /\ fwdPc = "recv"
    /\ ws = "closed"
    /\ fwdPc' = "raised"
    /\ UNCHANGED <<callVars, USER_SESSIONS, startVars, audioVars, clockVars, chunkVars, queryVars, orchVars, netVars, flagVars, sndVars, elapsed, sinceSend, rcvVars,
                   extVars, sessVars>>

\* ------------------------------------------------------------ baml_processing_loop
\* A merge that extends the list fields instead of replacing them.
UpdateExtendsLists(old, new) ==
    [k \in DOMAIN old \cup DOMAIN new |->
        IF k \notin DOMAIN new THEN old[k]
        ELSE IF k = "car_preferences" /\ k \in DOMAIN old THEN old[k] \o new[k]
        ELSE new[k]]

\* dict.update: every key of the new dump replaces the old value.
Update(old, new) ==
    [k \in DOMAIN old \cup DOMAIN new |-> IF k \in DOMAIN new THEN new[k] ELSE old[k]]

Range(q) == {q[i] : i \in 1..Len(q)}

\* A sort in descending order.
RECURSIVE SortedDescending(_)
SortedDescending(S) ==
    IF S = {} THEN <<>>
    ELSE LET m == CHOOSE x \in S : \A y \in S : x >= y
         IN  <<m>> \o SortedDescending(S \ {m})

\* sorted(set(...))
RECURSIVE Sorted(_)
Sorted(S) ==
    IF S = {} THEN <<>>
    ELSE LET m == CHOOSE x \in S : \A y \in S : x <= y
         IN  <<m>> \o Sorted(S \ {m})

\* What the extraction service can answer in a tick.
SpecExtractions ==
    {[profile |-> [name |-> 1, car_preferences |-> <<>>], questions |-> <<2, 1>>]}

\* asyncio.sleep(2) is over: with a transcript the two requests are sent,
\* without one the while condition is evaluated.
baml_processing_loop_Wake ==
    /\ extPc = "sleep"
    /\ extPc' = IF transcript # <<>> THEN "extract"
                ELSE IF end_call THEN "done" ELSE "sleep"
    /\ conversation_text' = IF transcript # <<>> THEN get_conversation_text(transcript)
                            ELSE conversation_text
    /\ extracted' = NoExtraction
    /\ UNCHANGED <<callVars, USER_SESSIONS, startVars, audioVars, clockVars, chunkVars, queryVars, orchVars, netVars, flagVars, sndVars, elapsed, sinceSend, rcvVars, fwdVars,
                   sessVars>>

\* The loop without `except Exception`: a failed request ends the loop.
baml_processing_loop_MergeFailureExits(X) ==
    /\ extPc = "extract"
    /\ \/ \E r \in X :
             /\ profile' = Update(profile, r.profile)
             /\ questions' = Sorted(Range(questions \o r.questions))
             /\ extracted' = Extraction(r)
             /\ extPc' = IF end_call THEN "done" ELSE "sleep"
       \/ /\ extracted' = FailedExtraction
          /\ extPc' = "done"
          /\ UNCHANGED <<profile, questions>>
    /\ USER_SESSIONS' = IF RUN_LOCAL THEN <<[profile |-> profile', questions |-> questions']>>
                       ELSE USER_SESSIONS
    /\ conversation_text' = <<>>
    /\ UNCHANGED <<callVars, startVars, audioVars, clockVars, chunkVars, queryVars, orchVars, netVars, flagVars, sndVars, elapsed, sinceSend, rcvVars,
                   fwdVars, transcript>>

\* A merge that stores the conversation it analysed back into the session.
baml_processing_loop_MergeStoresConversation(X) ==
    /\ extPc = "extract"
    /\ \/ \E r \in X :
             /\ profile' = Update(profile, r.profile)
             /\ questions' = Sorted(Range(questions \o r.questions))
             /\ extracted' = Extraction(r)
       \/ /\ extracted' = FailedExtraction
          /\ UNCHANGED <<profile, questions>>
    /\ transcript' = SubSeq(transcript, 1, Len(conversation_text))
    /\ extPc' = IF end_call THEN "done" ELSE "sleep"
    /\ USER_SESSIONS' = IF RUN_LOCAL THEN <<[profile |-> profile', questions |-> questions']>>
                       ELSE USER_SESSIONS
    /\ conversation_text' = <<>>
    /\ UNCHANGED <<callVars, startVars, audioVars, clockVars, chunkVars, queryVars, orchVars, netVars, flagVars, sndVars, elapsed, sinceSend, rcvVars,
                   fwdVars>>

\* asyncio.gather of the two requests returns: the profile is updated and the
\* questions are merged; a failed request is printed and changes nothing.
\* conversation_text is not read again once the answers are merged.
\* With plain dicts the entry of the caller address is the object the session
\* holds as renter_profile, so the entry changes with it.
baml_processing_loop_Merge(X) ==
    /\ extPc = "extract"
    /\ \/ \E r \in X :
             /\ profile' = Update(profile, r.profile)
             /\ questions' = Sorted(Range(questions \o r.questions))
             /\ extracted' = Extraction(r)
       \/ /\ extracted' = FailedExtraction
          /\ UNCHANGED <<profile, questions>>
    /\ extPc' = IF end_call THEN "done" ELSE "sleep"
    /\ USER_SESSIONS' = IF RUN_LOCAL THEN <<[profile |-> profile', questions |-> questions']>>
                       ELSE USER_SESSIONS
    /\ conversation_text' = <<>>
    /\ UNCHANGED <<callVars, startVars, audioVars, clockVars, chunkVars, queryVars, orchVars, netVars, flagVars, sndVars, elapsed, sinceSend, rcvVars, fwdVars,
                   transcript>>

\* ------------------------------------------------------------ specification
Next ==
    \/ Tick
    \/ PeerDrop
    \/ ModelDrop
    \/ ModelEmit(SpecEvents)
    \/ websocket_endpoint_Connecting(InboundMessages)
    \/ websocket_endpoint_Gather
    \/ websocket_endpoint_ConnectFails
    \/ websocket_endpoint_GatherReturns
    \/ websocket_endpoint_GatherRaises
    \/ send_to_twilio_Top
    \/ send_to_twilio_Wake
    \/ send_to_twilio_Get
    \/ send_to_twilio_Paced
    \/ send_to_twilio_Frame
    \/ receive_from_gemini_Event
    \/ receive_from_gemini_Raises
    \/ handle_user_interruption_Flush
    \/ handle_tool_calls_Drained
    \/ handle_tool_calls_Cancel
    \/ handle_tool_calls_Close
    \/ forward_audio_to_gemini_Receive(InboundMessages)
    \/ forward_audio_to_gemini_Sent
    \/ forward_audio_to_gemini_Raises
    \/ baml_processing_loop_Wake
    \/ baml_processing_loop_Merge(SpecExtractions)

Spec == Init /\ [][Next]_vars

\* Fairness of the asyncio event loop: a coroutine that can run is run, a sleep
\* that is over returns, time passes.  Nothing is assumed of the peers: the
\* model, the transport peer and the caller may stay silent for ever.
SenderStep ==
    \/ send_to_twilio_Top
    \/ send_to_twilio_Wake
    \/ send_to_twilio_Get
    \/ send_to_twilio_Paced
    \/ send_to_twilio_Frame

ReceiverStep ==
    \/ receive_from_gemini_Event
    \/ receive_from_gemini_Raises
    \/ handle_user_interruption_Flush
    \/ handle_tool_calls_Drained
    \/ handle_tool_calls_Cancel
    \/ handle_tool_calls_Close

ForwarderStep ==
    \/ forward_audio_to_gemini_Sent
    \/ forward_audio_to_gemini_Raises

ExtractorStep ==
    \/ baml_processing_loop_Wake
    \/ baml_processing_loop_Merge(SpecExtractions)

OrchestratorStep ==
    \/ websocket_endpoint_Gather
    \/ websocket_endpoint_GatherReturns
    \/ websocket_endpoint_GatherRaises

FairSpec ==
    /\ Spec
    /\ WF_vars(Tick)
    /\ WF_vars(SenderStep)
    /\ WF_vars(ReceiverStep)
    /\ WF_vars(ForwarderStep)
    /\ WF_vars(ExtractorStep)
    /\ WF_vars(OrchestratorStep)

\* ------------------------------------------------------------ properties
\* A step that writes a media event to the transport.
MediaSent == Len(wire') = Len(wire) + 1 /\ wire'[Len(wire')].event = "media"

\* A step that writes a clear event to the transport.
ClearSent == Len(wire') = Len(wire) + 1 /\ wire'[Len(wire')] = Clear

\* A step in which receive_from_gemini finishes the message it was handling.
Completes == inbox # <<>> /\ inbox' = <<>>

\* C1: in an ACTIVE session every media event is written to the transport in
\* a state in which the interruption flag is clear.
C1_NoMediaWhileInterrupted ==
    [][(orchPc = "active" /\ MediaSent) => ~user_interrupt]_vars

\* C2: handle_user_interruption sets the flag, then sends `clear`, then
\* discards the queue: `clear` is written only by the step that has set the
\* flag, the queue is untouched by that step, the flag stays set while the
\* send is awaited, and the step that returns leaves the queue empty.
C2_InterruptionOrder ==
    /\ [][ClearSent => (/\ rcvPc = "recv"
                        /\ rcvPc' = "hui_flush"
                        /\ user_interrupt'
                        /\ send_twililo_queue' = send_twililo_queue)]_vars
    /\ [](rcvPc = "hui_flush" => (user_interrupt /\ Clear \in Range(wire)))
    /\ [][(rcvPc = "hui_flush" /\ rcvPc' # "hui_flush")
            => (send_twililo_queue' = <<>> /\ user_interrupt')]_vars

\* C2 witness: the interruption has returned with the queue empty while the
\* sender is inside the frame loop of a part and later parts had been queued.
C2_Witness ==
    /\ rcvPc = "recv"
    /\ user_interrupt
    /\ send_twililo_queue = <<>>
    /\ stale
    /\ SenderMidPart
    /\ sndPart < enqueued

\* C3: once an interruption has happened while a dequeued part is being
\* emitted, no further frame of that part is written to the transport.
C3_NoFrameAfterInterruption ==
    [][MediaSent => ~stale]_vars

\* C4: the flag is cleared only by receive_from_gemini handling a message with
\* a model turn that is not interrupted, and every such message leaves the
\* flag clear when its handling is finished.
C4_FlagClearedByModelAudio ==
    /\ [][(user_interrupt /\ ~user_interrupt')
            => (/\ rcvPc = "recv"
                /\ inbox # <<>>
                /\ Head(inbox).turn
                /\ ~Head(inbox).interrupted)]_vars
    /\ [][(Completes /\ Head(inbox).turn /\ ~Head(inbox).interrupted)
            => ~user_interrupt']_vars

\* A step in which a terminal tool call performs one of its side effects.
TerminalSideEffect ==
    \/ ~redirected /\ redirected'
    \/ rcvPc = "term_sleep" /\ rcvPc' # "term_sleep"
    \/ rcvPc = "term_close" /\ rcvPc' # "term_close"

\* C5: a terminal tool call performs its side effects only when the queue is
\* empty and no frame of an already dequeued part is still to be sent.
C5_TerminalAfterPlayout ==
    [][TerminalSideEffect
         => (send_twililo_queue = <<>> /\ ~(SenderMidPart /\ ~stale))]_vars

HasTerminal(calls) == \E i \in 1..Len(calls) : calls[i].name \in TerminalTools

FirstTerminal(calls) ==
    CHOOSE i \in 1..Len(calls) :
        /\ calls[i].name \in TerminalTools
        /\ \A j \in 1..(i - 1) : calls[j].name \notin TerminalTools

\* C6: when the dispatch of a batch holding a terminal call is over,
\* handle_tool_calls has returned the empty list, the cancellation signal is
\* set, no call behind the terminal one was executed and no response batch
\* went to the model.
C6_TerminalBatch ==
    [][(Completes /\ ~Head(inbox).interrupted /\ HasTerminal(Head(inbox).calls))
         => (/\ htcResult' = "empty"
             /\ end_call'
             /\ \A i \in Range(executed') : i < FirstTerminal(Head(inbox).calls)
             /\ toolResponses' = toolResponses)]_vars

\* CLOSED: cleanup is complete.
Closed == orchPc = "closed" /\ end_call /\ Len(saved) = 1 /\ ws = "closed"

\* C7: a `closed` message delivered in ACTIVE leads to CLOSED.
C7_ClosedEventEndsSession ==
    (fwdPc = "stopped" /\ orchPc = "active") ~> Closed

Ended(pc) == pc \in {"done", "stopped", "raised"}

\* C8: once the cancellation signal is set, each of the four running loops
\* ends, whatever the peers do.
C8_LoopsExitAfterCancellation ==
    (end_call /\ sndPc # "idle")
        ~> (Ended(sndPc) /\ Ended(rcvPc) /\ Ended(fwdPc) /\ Ended(extPc))

\* C9 as stated: the signal is set, then the record is persisted, then the
\* transport is closed.
C9_CancelPersistClose ==
    orchPc = "closed" => cleanupLog = <<"cancel", "persist", "close">>

\* C9 amended: the record is persisted, then the signal is set, then the
\* transport is closed, and no error of the cleanup leaves websocket_endpoint.
C9_PersistCancelClose ==
    /\ [](orchPc = "closed"
            => (cleanupLog = <<"persist", "cancel", "close">> /\ Closed))
    /\ [][(orchPc \in {"opening", "active"})
            => (orchPc' \in {"opening", "active", "closed"})]_vars

\* C9 witness: the cleanup ran after a terminal tool had closed the transport,
\* so that its own ws.close() raised.
C9_Witness == orchPc = "closed" /\ htcResult = "empty"

\* C10: no transport error leaves websocket_endpoint, and the function ends
\* in CLOSED with the record persisted and the signal set.
C10_TransportErrorsCaught ==
    /\ orchPc # "raised"
    /\ orchPc = "closed" => (end_call /\ Len(saved) = 1)

\* ------------------------------------------------------------ tool dispatch
\* A session in which the model issues tool calls: a batch with a successful
\* handler, a call without a name, a handler that raises, an unregistered
\* name and get_caller_profile; a single unregistered call; a batch holding a
\* terminal call; a handler that raises before a terminal call; a tool call
\* in a message that also carries a model turn with audio.  The caller may
\* barge in.
EvTools ==
    Event("c1", FALSE,
          <<Call("show_top_cars", "none"), Call("", "none"), Call("can_end_call", "bad"),
            Call("foo", "none"), Call("get_caller_profile", "none")>>,
          FALSE, <<>>, NoText, FALSE)
EvUnknown == Event(NoText, FALSE, <<Call("foo", "none")>>, FALSE, <<>>, NoText, FALSE)

EvFailThenEnd ==
    Event(NoText, FALSE, <<Call("show_top_cars", "bad"), Call("end_call", "none")>>,
          FALSE, <<>>, NoText, FALSE)

ToolEvents == {EvTools, EvUnknown, EvBatch, EvFailThenEnd, EvBargeIn, EvToolAudio}

\* No audio is queued in such a session (the audio of a tool-call message is
\* not reached): the sender stays in queue.get().
ToolNext ==
    \/ PeerDrop
    \/ ModelDrop
    \/ ModelEmit(ToolEvents)
    \/ websocket_endpoint_Connecting(InboundMessages)
    \/ websocket_endpoint_Gather
    \/ websocket_endpoint_ConnectFails
    \/ websocket_endpoint_GatherRaises
    \/ receive_from_gemini_Event
    \/ receive_from_gemini_Raises
    \/ handle_user_interruption_Flush
    \/ handle_tool_calls_Cancel
    \/ handle_tool_calls_Close
    \/ forward_audio_to_gemini_Receive(InboundMessages)
    \/ forward_audio_to_gemini_Sent
    \/ forward_audio_to_gemini_Raises
    \/ baml_processing_loop_Wake
    \/ baml_processing_loop_Merge(SpecExtractions)

ToolSpec == Init /\ [][ToolNext]_vars

\* A step in which receive_from_gemini finishes a message whose tool calls
\* were dispatched.
Dispatched == Completes /\ ~Head(inbox).interrupted /\ Head(inbox).calls # <<>>

NonTerminalIdx(calls) == Sorted({i \in 1..Len(calls) : calls[i].name \notin TerminalTools})

NamedIdx(calls) == Sorted({i \in 1..Len(calls) : calls[i].name # ""})

\* The step sends to the model one batch that answers the calls idx, in order.
Answered(calls, idx) ==
    IF idx = <<>>
    THEN toolResponses' = toolResponses
    ELSE /\ Len(toolResponses') = Len(toolResponses) + 1
         /\ SubSeq(toolResponses', 1, Len(toolResponses)) = toolResponses
         /\ LET batch == toolResponses'[Len(toolResponses')]
            IN  /\ Len(batch) = Len(idx)
                /\ \A k \in 1..Len(idx) :
                      /\ batch[k].id = idx[k]
                      /\ batch[k].name = calls[idx[k]].name

\* C11 as stated: for every dispatched batch the model receives one batch with
\* a response, in call order, for every non-terminal call it issued.
C11_EveryCallAnswered ==
    [][Dispatched => Answered(Head(inbox).calls, NonTerminalIdx(Head(inbox).calls))]_vars

\* C11 amended: for every batch without a terminal call, dispatched while the
\* model session is open, the model receives one batch with exactly one
\* response, carrying the call's id and name, for every call that has a name,
\* in call order.
C11_NamedCallsAnswered ==
    [][(Dispatched /\ ~HasTerminal(Head(inbox).calls) /\ gs = "open")
         => Answered(Head(inbox).calls, NamedIdx(Head(inbox).calls))]_vars

\* C11 witness: the batch of five calls, one without a name, was answered with
\* four responses.
C11_Witness ==
    \E k \in 1..Len(toolResponses) : Len(toolResponses[k]) = 4

\* The handler of the call raises: a registered tool called with arguments it
\* does not accept.
HandlerRaises(fc) == fc.name \in TOOLS \ TerminalTools /\ fc.args = "bad"

\* Position behind the calls that the for loop reaches.
Limit(calls) == IF HasTerminal(calls) THEN FirstTerminal(calls) ELSE Len(calls) + 1

\* C12: when a registered handler raises, the loop goes on (every named call
\* up to the first terminal one is executed); in a batch without a terminal
\* call handle_tool_calls returns its list, the response of the failed call is
\* the error entry "Tool call failed: ...", the cancellation signal and the
\* session state are untouched.
C12_HandlerErrorContained ==
    [][(/\ Dispatched
        /\ \E i \in 1..Len(Head(inbox).calls) :
              HandlerRaises(Head(inbox).calls[i]) /\ i < Limit(Head(inbox).calls))
         => LET calls == Head(inbox).calls
                idx == NamedIdx(calls)
            IN  /\ Range(executed') = {j \in Range(idx) : j < Limit(calls)}
                /\ ~HasTerminal(calls)
                     => /\ htcResult' = "list"
                        /\ end_call' = end_call
                        /\ orchPc' = orchPc
                        /\ gs = "open"
                             => LET batch == toolResponses'[Len(toolResponses')]
                                IN  \A k \in 1..Len(idx) :
                                       HandlerRaises(calls[idx[k]])
                                         => /\ batch[k].id = idx[k]
                                            /\ batch[k].response.kind = "error"
                                            /\ batch[k].response.data
                                                 = <<"Tool call failed: ", calls[idx[k]].name>>]_vars

\* C12 witness: the session is ACTIVE, not cancelled, and the model holds the
\* error entry of the failed call followed by the responses of the later calls.
C12_Witness ==
    /\ orchPc = "active"
    /\ ~end_call
    /\ \E k \in 1..Len(toolResponses) :
          /\ Len(toolResponses[k]) = 4
          /\ toolResponses[k][2].response.kind = "error"
          /\ toolResponses[k][2].name = "can_end_call"
          /\ toolResponses[k][4].name = "get_caller_profile"

\* A batch with a single call to a name that is neither registered nor
\* handled by the dispatcher itself.
SingleUnknown(calls) ==
    /\ Len(calls) = 1
    /\ calls[1].name \notin TOOLS \cup TerminalTools \cup {"get_caller_profile", ""}

\* The step answers the single call with the error entry whose message is
\* the prefix followed by the tool name.
UnknownAnswer(prefix) ==
    LET fc == Head(inbox).calls[1]
    IN  /\ htcResult' = "list"
        /\ toolResponses'
             = Append(toolResponses,
                      <<[id |-> 1, name |-> fc.name,
                         response |-> [kind |-> "error", data |-> <<prefix, fc.name>>]]>>)

\* C13 as stated: a single call to the unregistered name foo yields exactly
\* one response, {error: "unknown tool: foo"}, and the dispatcher does not raise.
C13_UnknownToolLowerCase ==
    [][(Dispatched /\ SingleUnknown(Head(inbox).calls) /\ gs = "open")
         => UnknownAnswer("unknown tool: ")]_vars

\* C13 amended: the payload is {error: "Unknown tool: foo"}.
C13_UnknownToolAnswer ==
    [][(Dispatched /\ SingleUnknown(Head(inbox).calls) /\ gs = "open")
         => UnknownAnswer("Unknown tool: ")]_vars

\* C13 witness: the model holds the one-entry batch for foo.
C13_Witness ==
    \E k \in 1..Len(toolResponses) :
        Len(toolResponses[k]) = 1 /\ toolResponses[k][1].name = "foo"

\* ------------------------------------------------------------ session data
\* A session in which the model sends transcriptions only (caller text, caller
\* and agent text in one message, both with empty text), the model connection
\* stays up and the extraction service answers with empty and non-empty fields.
EvHeard == Event("c1", FALSE, <<>>, FALSE, <<>>, NoText, FALSE)
EvBoth == Event("c2", FALSE, <<>>, FALSE, <<>>, "a2", FALSE)
EvEmptyText == Event("", FALSE, <<>>, FALSE, <<>>, "", FALSE)

SessionEvents == {EvHeard, EvBoth, EvEmptyText}

MergeExtractions ==
    [profile : [name : {0, 1}, car_preferences : {<<>>, <<1>>}],
     questions : {<<>>, <<2, 1>>, <<1, 1>>}]

SessionNext ==
    \/ PeerDrop
    \/ ModelEmit(SessionEvents)
    \/ websocket_endpoint_Connecting(InboundMessages)
    \/ websocket_endpoint_Gather
    \/ websocket_endpoint_ConnectFails
    \/ websocket_endpoint_GatherRaises
    \/ receive_from_gemini_Event
    \/ forward_audio_to_gemini_Receive(InboundMessages)
    \/ forward_audio_to_gemini_Sent
    \/ forward_audio_to_gemini_Raises
    \/ baml_processing_loop_Wake
    \/ baml_processing_loop_Merge(MergeExtractions)

SessionSpec == Init /\ [][SessionNext]_vars

\* An extraction tick ends with an answer / with a failure.
TickAnswered == extPc = "extract" /\ extracted'.kind = "answer"
TickFailed == extPc = "extract" /\ extracted'.kind = "failed"

\* A profile field without a value: null, or the empty list.
EmptyField(f, v) == IF f = "name" THEN v = 0 ELSE v = <<>>

\* C14: a field that the extraction left empty does not overwrite a
\* non-empty value of the session profile.
C14_MergeNotDestructive ==
    [][TickAnswered
         => \A f \in DOMAIN profile :
               (EmptyField(f, extracted'.profile[f]) /\ ~EmptyField(f, profile[f]))
                 => profile'[f] = profile[f]]_vars

\* Strictly increasing: sorted and without duplicates.
SortedNoDup(q) == \A i \in 1..(Len(q) - 1) : q[i] < q[i + 1]

\* C15: after a successful tick the questions are sorted, duplicate-free and
\* the union of the questions before the tick and the extracted ones.
C15_QuestionsSortedUnion ==
    [][TickAnswered
         => /\ SortedNoDup(questions')
            /\ Range(questions') = Range(questions) \cup Range(extracted'.questions)]_vars

\* C15 witness: an answer with a duplicated, already recorded question was
\* merged into a list holding another question.
C15_Witness ==
    /\ extracted.kind = "answer"
    /\ extracted.questions = <<1, 1>>
    /\ questions = <<1, 2>>

\* C16: a failed tick leaves profile and questions as they were and the
\* cancellation signal untouched; the loop goes back to its sleep unless the
\* session was cancelled meanwhile.
C16_FailedTickChangesNothing ==
    [][TickFailed
         => /\ profile' = profile
            /\ questions' = questions
            /\ end_call' = end_call
            /\ ~end_call => extPc' = "sleep"]_vars

\* C16 witness: a tick failed in a live session that holds extracted data;
\* the loop waits for its next tick.
C16_Witness ==
    /\ extracted.kind = "failed"
    /\ extPc = "sleep"
    /\ ~end_call
    /\ profile # EmptyProfile
    /\ questions # <<>>

\* Entries that receive_from_gemini appends for one message: the caller text
\* if there is any, then the agent text of a message that is neither
\* interrupted nor a tool call.
NewEntries(e) ==
    (IF e.input # NoText /\ e.input # ""
     THEN <<[speaker |-> "caller", text |-> e.input]>> ELSE <<>>)
    \o (IF e.output # NoText /\ ~e.interrupted /\ e.calls = <<>>
        THEN <<[speaker |-> "agent", text |-> e.output]>> ELSE <<>>)

\* C17: the transcript changes only when receive_from_gemini takes a message,
\* and then by appending that message's entries, caller first.
C17_TranscriptAppendOnly ==
    [][transcript' # transcript
         => /\ rcvPc = "recv"
            /\ inbox # <<>>
            /\ transcript' = transcript \o NewEntries(Head(inbox))]_vars

\* C17 witness: a message with caller and agent text was appended, caller
\* first, behind the entry of an earlier message.
C17_Witness ==
    /\ Len(transcript) = 3
    /\ transcript[1].text = "c1"
    /\ transcript[2] = [speaker |-> "caller", text |-> "c2"]
    /\ transcript[3] = [speaker |-> "agent", text |-> "a2"]

\* ------------------------------------------------------------ outbound audio
IsMedia(m) == m.event = "media"

\* The media events written to the transport, in send order.
MediaOnWire == SelectSeq(wire, IsMedia)

\* C18: the media frames on the transport are in generation order: every
\* frame is either the first frame of a part enqueued later than the part of
\* the frame before it, or the next frame of the same part; no frame is sent
\* twice and none belongs to a part that was not enqueued.
C18_MediaInGenerationOrder ==
    LET ms == MediaOnWire
    IN  \A i \in 1..Len(ms) :
           /\ ms[i].part \in 1..enqueued
           /\ IF i > 1 /\ ms[i].part = ms[i - 1].part
              THEN ms[i].frame = ms[i - 1].frame + 1
              ELSE /\ ms[i].frame = 1
                   /\ i > 1 => ms[i].part > ms[i - 1].part

\* C18 witness: both frames of one part and then a frame of a later part
\* are on the transport.
C18_Witness ==
    LET ms == MediaOnWire
    IN  /\ Len(ms) >= 3
        /\ ms[1].part = ms[2].part
        /\ ms[3].part > ms[2].part

\* C19: a frame that is not the first of its part is written to the transport
\* no earlier than the pacing budget after the frame before it.
C19_FramesPaced ==
    [][(MediaSent /\ sndIdx >= 1) => sinceSend >= FrameBudgetMs]_vars

\* ------------------------------------------------------------ chunk_mulaw_20ms
\* mulaw_bytes[lo : hi]: a slice is clipped to the length of the string.
Slice(b, lo, hi) == SubSeq(b, lo + 1, Min(hi, Len(b)))

\* A split that keeps full frames only.
chunk_mulaw_20ms_FullFramesOnly(b) ==
    [k \in 1..(Len(b) \div FrameBytes) |->
        Slice(b, (k - 1) * FrameBytes, (k - 1) * FrameBytes + FrameBytes)]

\* [mulaw_bytes[i : i + frame] for i in range(0, len(mulaw_bytes), frame)]
chunk_mulaw_20ms(b) ==
    [k \in 1..((Len(b) + FrameBytes - 1) \div FrameBytes) |->
        Slice(b, (k - 1) * FrameBytes, (k - 1) * FrameBytes + FrameBytes)]

\* Byte strings of every length up to the bound, with two contents.
ByteStrings ==
    {[i \in 1..n |-> (i + off) % 256] : n \in 0..MaxBytes, off \in {0, 100}}

ChunkInit ==
    /\ RUN_LOCAL = FALSE
    /\ SessionInit
    /\ mulaw_bytes \in ByteStrings
    /\ chunked = <<>>
    /\ NoQuery

chunk_mulaw_20ms_Call ==
    /\ chunked' = chunk_mulaw_20ms(mulaw_bytes)
    /\ UNCHANGED <<callVars, USER_SESSIONS, startVars, audioVars, clockVars, queryVars, orchVars, netVars, flagVars, sndVars, elapsed, sinceSend, rcvVars, fwdVars,
                   extVars, sessVars, mulaw_bytes>>

ChunkNext == chunk_mulaw_20ms_Call

ChunkSpec == ChunkInit /\ [][ChunkNext]_vars

RECURSIVE Concat(_)
Concat(fs) == IF fs = <<>> THEN <<>> ELSE Head(fs) \o Concat(Tail(fs))

\* C20: the result has L \div 160 frames of 160 bytes, then one frame of
\* L % 160 bytes when that is not zero; no frame is empty, and the frames
\* concatenated in order are the input.
C20_ChunkFrames ==
    [][LET L == Len(mulaw_bytes)
           full == L \div FrameBytes
           rest == L % FrameBytes
       IN  /\ Len(chunked') = full + (IF rest # 0 THEN 1 ELSE 0)
           /\ \A k \in 1..full : Len(chunked'[k]) = FrameBytes
           /\ rest # 0 => Len(chunked'[full + 1]) = rest
           /\ \A k \in 1..Len(chunked') : chunked'[k] # <<>>
           /\ Concat(chunked') = mulaw_bytes]_vars

\* C20 witness: a string of two full frames and five bytes was split.
C20_Witness ==
    /\ Len(mulaw_bytes) = 2 * FrameBytes + 5
    /\ Len(chunked) = 3
    /\ Len(chunked[3]) = 5

\* ------------------------------------------------------------ barge-in
\* A step of handle_user_interruption: the call from receive_from_gemini up to
\* the await of ws.send_json, or the flush after it.
InterruptionStep ==
    \/ /\ rcvPc = "recv"
       /\ inbox # <<>>
       /\ Head(inbox).interrupted
       /\ rcvPc' = "hui_flush" \/ inbox' = <<>>
    \/ rcvPc = "hui_flush" /\ rcvPc' # "hui_flush"

\* C21: handling a barge-in does not end the session: a step of
\* handle_user_interruption leaves the cancellation signal, the transport
\* connection, the model session, the orchestrator, the persisted records,
\* profile and questions as they were; the transcript gets nothing but the
\* caller text that receive_from_gemini appends before the call; the only
\* event written to the transport is `clear`; the flag ends up set and the
\* queue is either untouched or emptied.
C21_BargeInKeepsSession ==
    [][InterruptionStep
         => /\ end_call' = end_call
            /\ ws' = ws
            /\ gs' = gs
            /\ orchPc' = orchPc
            /\ saved' = saved
            /\ profile' = profile
            /\ questions' = questions
            /\ redirected' = redirected
            /\ toolResponses' = toolResponses
            /\ transcript' = IF rcvPc = "recv"
                             THEN transcript \o NewEntries(Head(inbox))
                             ELSE transcript
            /\ wire' \in {wire, Append(wire, Clear)}
            /\ user_interrupt'
            /\ send_twililo_queue' \in {send_twililo_queue, <<>>}]_vars

\* C21 witness: a barge-in was handled to its end (flag set, `clear` sent,
\* the parts queued behind the one being played discarded) and the session is
\* ACTIVE, not cancelled, with the transport open.
C21_Witness ==
    /\ orchPc = "active"
    /\ ~end_call
    /\ ws = "open"
    /\ rcvPc = "recv"
    /\ inbox = <<>>
    /\ user_interrupt
    /\ Clear \in Range(wire)
    /\ SenderMidPart
    /\ sndPart < enqueued
    /\ send_twililo_queue = <<>>

\* ------------------------------------------------------------ cancellation
\* The loop has left its while loop because the signal was set.
ExitedOnSignal(pc) == pc = "done"

\* C22: the cancellation signal is set only by a terminal tool (after its
\* asyncio.sleep(2)) or by the cleanup of the orchestrator; once set it stays
\* set; a loop leaves through its while condition only when the signal is set,
\* and a loop that has left stays where it is.
C22_CancellationMonotonic ==
    /\ [][end_call => end_call']_vars
    /\ [][(~end_call /\ end_call')
            => (rcvPc = "term_sleep" \/ (orchPc # "closed" /\ orchPc' = "closed"))]_vars
    /\ [](\A pc \in {sndPc, rcvPc, fwdPc, extPc} : ExitedOnSignal(pc) => end_call)
    /\ [][/\ ExitedOnSignal(sndPc) => sndPc' = sndPc
          /\ ExitedOnSignal(rcvPc) => rcvPc' = rcvPc
          /\ ExitedOnSignal(fwdPc) => fwdPc' = fwdPc
          /\ ExitedOnSignal(extPc) => extPc' = extPc]_vars

\* C22 witness: a transfer has set the signal, the sender, the receiver and
\* the extraction loop have left on observing it, and the cleanup has set the
\* signal a second time.
C22_Witness ==
    /\ end_call
    /\ redirected
    /\ ExitedOnSignal(sndPc)
    /\ ExitedOnSignal(rcvPc)
    /\ ExitedOnSignal(extPc)
    /\ orchPc = "closed"

\* ------------------------------------------------------------ end of stream
\* The `close` event of a terminal tool has been written to the transport.
CloseOnWire == Close \in Range(wire)

\* C23: once `close` has been written to the transport, no `media` and no
\* `clear` event is written to it.
C23_CloseIsLast ==
    [][CloseOnWire => ~(MediaSent \/ ClearSent)]_vars

\* ------------------------------------------------------------ model events
\* The step in which receive_from_gemini takes a message of gs.receive() and
\* runs the try block to its first suspension point.
TakesMessage ==
    /\ rcvPc = "recv"
    /\ inbox # <<>>
    /\ inbox' = <<>> \/ rcvPc' # "recv"

\* The step has entered handle_tool_calls.
EntersDispatch ==
    \/ htcResult' \in {"list", "raised"}
    \/ rcvPc' \in {"drain", "term_sleep"}

\* C24: every field of a message is processed whatever the other fields are:
\* caller text gives a caller entry, agent text gives an agent entry, a batch
\* of calls is dispatched, the parts of a non-interrupted model turn are
\* enqueued.
C24_FieldsIndependent ==
    [][TakesMessage
         => LET e == Head(inbox)
                new == SubSeq(transcript', Len(transcript) + 1, Len(transcript'))
            IN  /\ (e.input # NoText /\ e.input # "")
                     => (new # <<>> /\ new[1] = Entry("caller", e.input))
                /\ e.output # NoText
                     => (new # <<>> /\ new[Len(new)] = Entry("agent", e.output))
                /\ e.calls # <<>> => EntersDispatch
                /\ (e.turn /\ ~e.interrupted)
                     => /\ enqueued' = enqueued + Len(e.parts)
                        /\ send_twililo_queue'
                             = send_twililo_queue \o Parts(e.parts, enqueued)]_vars

\* ------------------------------------------------------------ persisted record
\* The step in which the finally block of websocket_endpoint runs.
Cleanup == orchPc # "closed" /\ orchPc' = "closed"

\* The step persists one record whose transcript is the in-memory transcript
\* rendered as one `speaker: text` line per entry, in append order, with the
\* call identifier, the timestamps, the intents and the caller data (profile
\* and open questions).
PersistsSession ==
    /\ Len(saved') = Len(saved) + 1
    /\ LET rec == saved'[Len(saved')].data
       IN  /\ Len(rec.transcript) = Len(transcript)
           /\ \A i \in 1..Len(transcript) :
                 rec.transcript[i] = <<transcript[i].speaker, ": ", transcript[i].text>>
           /\ rec.call_sid = call_sid
           /\ {"start_time", "end_time", "intents"} \subseteq DOMAIN rec
           /\ rec.renter_profile = [profile |-> profile, questions |-> questions]

\* The JSON content has a field for the caller address.
HoldsCallerAddress(rec) == "caller_number" \in DOMAIN rec

EvCanEnd == Event(NoText, FALSE, <<Call("can_end_call", "none")>>, FALSE, <<>>, NoText, FALSE)
EvCanTransfer ==
    Event(NoText, FALSE, <<Call("can_transfer_to_human", "none")>>, FALSE, <<>>, NoText, FALSE)
EvEndCall == Event(NoText, FALSE, <<Call("end_call", "none")>>, FALSE, <<>>, NoText, FALSE)

GateEvents == {EvCanEnd, EvCanTransfer, EvEndCall, EvTransfer}

\* datetime.now().hour reaches after_hours.
HourPasses ==
    /\ ~after_hours
    /\ after_hours' = TRUE
    /\ UNCHANGED <<callVars, USER_SESSIONS, startVars, audioVars, chunkVars, queryVars, orchVars, netVars, flagVars, sndVars,
                   elapsed, sinceSend, rcvVars, fwdVars, extVars, sessVars>>

GateNext ==
    \/ HourPasses
    \/ PeerDrop
    \/ ModelEmit(GateEvents)
    \/ websocket_endpoint_Connecting(InboundMessages)
    \/ websocket_endpoint_Gather
    \/ websocket_endpoint_ConnectFails
    \/ websocket_endpoint_GatherRaises
    \/ receive_from_gemini_Event
    \/ handle_tool_calls_Cancel
    \/ handle_tool_calls_Close
    \/ forward_audio_to_gemini_Receive(InboundMessages)
    \/ forward_audio_to_gemini_Sent
    \/ forward_audio_to_gemini_Raises
    \/ baml_processing_loop_Wake

GateSpec == Init /\ [][GateNext]_vars

\* Every call of the batch is to an advisory tool.
OnlyAdvisory(calls) ==
    \A i \in 1..Len(calls) : calls[i].name \in {"can_end_call", "can_transfer_to_human"}

\* C26: a terminal call enters the terminal branch whatever the advisory tools
\* have answered so far in the session: with the queue empty the redirect of
\* transfer_to_human is made (or its call-control request fails) and the
\* 2 s sleep starts, and when the sleep is over the cancellation signal is
\* set.  A batch of advisory calls is answered with the results of the
\* handlers and changes neither the session record, the flags, the queue,
\* the transport nor the orchestrator.
C26_NoGateEnforced ==
    /\ [][(TakesMessage /\ ~Head(inbox).interrupted /\ HasTerminal(Head(inbox).calls)
            /\ send_twililo_queue = <<>>)
            => LET name == Head(inbox).calls[FirstTerminal(Head(inbox).calls)].name
               IN  \/ /\ rcvPc' = "term_sleep"
                      /\ termCall' = name
                      /\ redirected' = (redirected \/ name = "transfer_to_human")
                   \/ /\ name = "transfer_to_human"
                      /\ htcResult' = "raised"]_vars
    /\ [][(rcvPc = "term_sleep" /\ rcvPc' # "term_sleep") => end_call']_vars
    /\ [][(TakesMessage /\ ~Head(inbox).interrupted /\ Head(inbox).calls # <<>>
            /\ OnlyAdvisory(Head(inbox).calls))
            => /\ htcResult' = "list"
               /\ gs = "open"
                    => /\ Len(toolResponses') = Len(toolResponses) + 1
                       /\ \A k \in 1..Len(Head(inbox).calls) :
                             toolResponses'[Len(toolResponses')][k].response.kind = "result"
               /\ UNCHANGED <<sessVars, flagVars, netVars, orchVars, redirected>>]_vars

\* C26 witness: can_transfer_to_human has answered False, no advisory tool
\* has answered True, and transfer_to_human has redirected the call and set
\* the cancellation signal.
C26_Witness ==
    /\ redirected
    /\ end_call
    /\ orchPc = "active"
    /\ toolResponses # <<>>
    /\ \A k \in 1..Len(toolResponses) :
          toolResponses[k][1].response.data = <<"can_transfer_to_human", "False">>

\* ------------------------------------------------------------ get_caller_profile
\* session.renter_profile.model_dump() as a response payload.
ProfileSnapshot == [kind |-> "profile", data |-> <<profile, questions>>]

\* C27: every get_caller_profile call that the for loop reaches gets the
\* response that handle_tool_calls builds itself from the profile and the
\* questions of the session as they are when the batch is dispatched; when
\* the batch is sent, that is what the model receives; the dispatch changes
\* neither profile, questions, the queue, the flags nor the transport, and
\* the transcript gets nothing but the caller text of the message.
C27_ProfileAnsweredLocally ==
    [][(TakesMessage /\ ~Head(inbox).interrupted /\ Head(inbox).calls # <<>>)
         => LET calls == Head(inbox).calls
                d == Dispatch(calls, 1, <<>>, <<>>)
            IN  /\ \A k \in 1..Len(d.responses) :
                      d.responses[k].name = "get_caller_profile"
                        => d.responses[k].response = ProfileSnapshot
                /\ \A i \in 1..Len(calls) :
                      (calls[i].name = "get_caller_profile" /\ i < Limit(calls))
                        => \E k \in 1..Len(d.responses) : d.responses[k].id = i
                /\ (~HasTerminal(calls) /\ gs = "open" /\ d.responses # <<>>)
                     => toolResponses' = Append(toolResponses, d.responses)
                /\ profile' = profile
                /\ questions' = questions
                /\ transcript' = transcript \o NewEntries(Head(inbox))
                /\ UNCHANGED <<flagVars, netVars>>]_vars

\* C27 witness: the model holds a get_caller_profile response with a profile
\* and questions that an extraction tick had merged before the call.
C27_Witness ==
    \E k \in 1..Len(toolResponses) : \E j \in 1..Len(toolResponses[k]) :
        /\ toolResponses[k][j].name = "get_caller_profile"
        /\ toolResponses[k][j].response.kind = "profile"
        /\ toolResponses[k][j].response.data[1] # EmptyProfile
        /\ toolResponses[k][j].response.data[2] # <<>>

\* ------------------------------------------------------------ show_top_cars
Car(make, model, year, price, type, sale_type, fuel, hp, seats, features, mileage) ==
    [make |-> make, model |-> model, year |-> year, price |-> price, type |-> type,
     sale_type |-> sale_type, fuel_efficiency |-> fuel, horsepower |-> hp, seats |-> seats,
     features |-> features, mileage |-> mileage]

Camry == Car("Toyota", "Camry", 2020, 30000, "sedan", "purchase", 32, 200, 5, <<"gps">>, 40000)
Explorer == Car("Ford", "Explorer", 2022, 60000, "suv", "rental", 24, 300, 7, <<"gps", "sunroof">>, 10000)
X5 == Car("BMW", "X5", 2023, 90000, "suv", "purchase", 22, 335, 5, <<"sunroof">>, 5000)
Civic == Car("Honda", "Civic", 2018, 30000, "sedan", "rental", 35, 158, 5, <<>>, 60000)

\* Car lists: mixed types and prices with two cars of one price, in two
\* orders, and the empty list.
CarLists == {<<X5, Camry, Explorer, Civic>>, <<Civic, Explorer, Camry>>, <<>>}

\* The values a filter is supplied with; they include 0 and the empty list.
FilterValues ==
    [makes : {<<>>, <<<<"Toyota", "Ford">>>>, <<<<>>>>},
     models : {<<>>, <<<<"X5">>>>},
     year_gte : {<<>>, <<2020>>},
     year_lte : {<<>>, <<2020>>},
     budget_low : {<<>>, <<0>>, <<50000>>},
     budget_high : {<<>>, <<80000>>, <<0>>},
     car_type : {<<>>, <<"suv">>},
     sale_type : {<<>>, <<"rental">>},
     fuel_efficiency_gte : {<<>>, <<30>>},
     features : {<<>>, <<<<"gps">>>>},
     horsepower_gte : {<<>>, <<250>>},
     seats_gte : {<<>>, <<7>>}]

Supplied(f) == {k \in FilterNames : f[k] # <<>>}

Queries ==
    [filters : {f \in FilterValues : Cardinality(Supplied(f)) <= MaxFilters},
     order_by : {"year", "price", "mileage"},
     top_n : {0, 2, 5}]

\* Python's `not x` for an optional argument: true for None, and for a
\* number that is 0, a list that is empty, a string that is empty.
NotNumber(x) == x = <<>> \/ x[1] = 0
NotList(x) == x = <<>> \/ x[1] = <<>>
NotString(x) == x = <<>> \/ x[1] = ""

\* getattr(car, order_by)
Key(car, order_by) ==
    IF order_by = "year" THEN car.year
    ELSE IF order_by = "price" THEN car.price
    ELSE car.mileage

\* The condition of the list comprehension.
Relevant(car, f) ==
    /\ NotList(f.makes) \/ car.make \in Range(f.makes[1])
    /\ NotList(f.models) \/ car.model \in Range(f.models[1])
    /\ NotNumber(f.year_gte) \/ car.year >= f.year_gte[1]
    /\ NotNumber(f.year_lte) \/ car.year <= f.year_lte[1]
    /\ NotNumber(f.budget_low) \/ car.price >= f.budget_low[1]
    /\ NotNumber(f.budget_high) \/ car.price <= f.budget_high[1]
    /\ NotString(f.car_type) \/ car.type = f.car_type[1]
    /\ NotString(f.sale_type) \/ car.sale_type = f.sale_type[1]
    /\ NotNumber(f.fuel_efficiency_gte) \/ car.fuel_efficiency >= f.fuel_efficiency_gte[1]
    /\ NotNumber(f.horsepower_gte) \/ car.horsepower >= f.horsepower_gte[1]
    /\ NotNumber(f.seats_gte) \/ car.seats >= f.seats_gte[1]
    /\ NotList(f.features) \/ Range(f.features[1]) \subseteq Range(car.features)

\* [car for car in cars if cond(car)]
RECURSIVE Comprehension(_, _)
Comprehension(cars, f) ==
    IF cars = <<>> THEN <<>>
    ELSE (IF Relevant(Head(cars), f) THEN <<Head(cars)>> ELSE <<>>)
         \o Comprehension(Tail(cars), f)

\* list.sort(key=...): ascending and stable.
RECURSIVE InsertByKey(_, _, _)
InsertByKey(car, sorted, order_by) ==
    IF sorted = <<>> THEN <<car>>
    ELSE IF Key(Head(sorted), order_by) <= Key(car, order_by)
    THEN <<Head(sorted)>> \o InsertByKey(car, Tail(sorted), order_by)
    ELSE <<car>> \o sorted

RECURSIVE SortByKey(_, _)
SortByKey(cars, order_by) ==
    IF cars = <<>> THEN <<>>
    ELSE InsertByKey(cars[Len(cars)], SortByKey(SubSeq(cars, 1, Len(cars) - 1), order_by),
                     order_by)

\* cars[:n]: a negative n counts from the end of the list.
SliceTo(cars, n) ==
    IF n >= 0 THEN SubSeq(cars, 1, Min(n, Len(cars)))
    ELSE SubSeq(cars, 1, Max(Len(cars) + n, 0))

show_top_cars(cars, a) ==
    SliceTo(SortByKey(Comprehension(cars, a.filters), a.order_by), a.top_n)

QueryInit ==
    /\ RUN_LOCAL = FALSE
    /\ SessionInit
    /\ mulaw_bytes = <<>>
    /\ chunked = <<>>
    /\ CAR_DATABASE \in CarLists
    /\ kwargs \in Queries
    /\ top_cars = <<>>
    /\ returned = FALSE

show_top_cars_Call ==
    /\ ~returned
    /\ top_cars' = show_top_cars(CAR_DATABASE, kwargs)
    /\ returned' = TRUE
    /\ UNCHANGED <<callVars, USER_SESSIONS, startVars, audioVars, clockVars, chunkVars, CAR_DATABASE, kwargs, orchVars, netVars, flagVars, sndVars,
                   elapsed, sinceSend, rcvVars, fwdVars, extVars, sessVars>>

QueryNext == show_top_cars_Call

QuerySpec == QueryInit /\ [][QueryNext]_vars

\* The car satisfies every filter that was supplied.
Satisfies(car, f) ==
    /\ f.makes # <<>> => car.make \in Range(f.makes[1])
    /\ f.models # <<>> => car.model \in Range(f.models[1])
    /\ f.year_gte # <<>> => car.year >= f.year_gte[1]
    /\ f.year_lte # <<>> => car.year <= f.year_lte[1]
    /\ f.budget_low # <<>> => car.price >= f.budget_low[1]
    /\ f.budget_high # <<>> => car.price <= f.budget_high[1]
    /\ f.car_type # <<>> => car.type = f.car_type[1]
    /\ f.sale_type # <<>> => car.sale_type = f.sale_type[1]
    /\ f.fuel_efficiency_gte # <<>> => car.fuel_efficiency >= f.fuel_efficiency_gte[1]
    /\ f.horsepower_gte # <<>> => car.horsepower >= f.horsepower_gte[1]
    /\ f.seats_gte # <<>> => car.seats >= f.seats_gte[1]
    /\ f.features # <<>> => Range(f.features[1]) \subseteq Range(car.features)

\* C28: the list returned holds only cars of the car list that satisfy every
\* supplied filter, is ascending in the order_by attribute, has at most top_n
\* entries, and no car that satisfies the filters is left out unless top_n
\* cars with an attribute no greater than its own are returned.
C28_TopCars ==
    [][returned'
         => LET f == kwargs.filters
                key(c) == Key(c, kwargs.order_by)
                matching == {i \in 1..Len(CAR_DATABASE) : Satisfies(CAR_DATABASE[i], f)}
            IN  /\ \A k \in 1..Len(top_cars') :
                      /\ top_cars'[k] \in Range(CAR_DATABASE)
                      /\ Satisfies(top_cars'[k], f)
                /\ \A k \in 1..(Len(top_cars') - 1) : key(top_cars'[k]) <= key(top_cars'[k + 1])
                /\ Len(top_cars') <= kwargs.top_n
                /\ Len(top_cars') = Min(kwargs.top_n, Cardinality(matching))
                /\ \A i \in matching :
                      CAR_DATABASE[i] \in Range(top_cars')
                        \/ \A k \in 1..Len(top_cars') : key(top_cars'[k]) <= key(CAR_DATABASE[i])]_vars

\* ------------------------------------------------------------ merge algebra
\* C29: the merge of a tick is idempotent: merging the extraction result of
\* the tick once more into the profile and the questions that the tick has
\* produced gives that profile and those questions again.
C29_MergeIdempotent ==
    [][TickAnswered
         => /\ Update(profile', extracted'.profile) = profile'
            /\ Sorted(Range(questions' \o extracted'.questions)) = questions']_vars

\* C29 witness: a result with a name, a preference and two unsorted questions
\* was merged, and the session holds each of them once.
C29_Witness ==
    /\ extracted = Extraction([profile |-> [name |-> 1, car_preferences |-> <<1>>],
                               questions |-> <<2, 1>>])
    /\ profile = [name |-> 1, car_preferences |-> <<1>>]
    /\ questions = <<1, 2>>
    /\ Len(transcript) >= 2

\* ------------------------------------------------------------ terminal order
\* A step that writes the close event to the transport.
CloseSent == wire' = Append(wire, Close)

\* The terminal call that the dispatch of the message at hand reaches.
ReachedTerminal == Head(inbox).calls[FirstTerminal(Head(inbox).calls)].name

\* C30: the effects of a terminal tool come in a fixed order.  The call leg
\* is redirected only after the hold announcement, both only by
\* transfer_to_human and before the 2 s sleep; the cancellation signal is set
\* when the sleep is over, after the redirect of a transfer; `close` is
\* written only in the step that has set the signal; the transport is closed
\* by the tool only after `close` was written; end_call passes to the sleep
\* without an announcement or a redirect.
C30_TerminalOrder ==
    /\ [](redirected => announced)
    /\ [][(redirected' # redirected \/ announced' # announced)
            => (/\ rcvPc \in {"recv", "drain"}
                /\ inbox # <<>>
                /\ ReachedTerminal = "transfer_to_human")]_vars
    /\ [][(rcvPc = "term_sleep" /\ rcvPc' # "term_sleep")
            => (/\ end_call'
                /\ termCall = "transfer_to_human" => (announced /\ redirected))]_vars
    /\ [][CloseSent => (rcvPc = "term_sleep" /\ rcvPc' = "term_close" /\ end_call')]_vars
    /\ [][(rcvPc = "term_close" /\ rcvPc' # "term_close")
            => (end_call /\ CloseOnWire /\ ws' = "closed")]_vars
    /\ [][(rcvPc # "term_sleep" /\ rcvPc' = "term_sleep" /\ termCall' = "end_call")
            => (redirected' = redirected /\ announced' = announced)]_vars

\* C30 witness: a transfer has run to its end in an ACTIVE session:
\* announcement, redirect, signal, `close`, transport closed, empty list
\* returned.
C30_Witness ==
    /\ orchPc = "active"
    /\ announced
    /\ redirected
    /\ end_call
    /\ CloseOnWire
    /\ ws = "closed"
    /\ htcResult = "empty"

\* ------------------------------------------------------------ stream ids
\* The peer may send two different `start` messages, a `start` message
\* without a stream id, and messages of other kinds that carry a stream id.
StreamMessages ==
    {StartMsg("MZ1"), StartMsg("MZ2"), [event |-> "start"], MediaMsg("MZ3", <<255>>),
     ClosedMsg, MarkMsg}

StreamEvents == {EvAudio, EvBargeIn, EvTransfer}

StreamNext ==
    \/ Tick
    \/ PeerDrop
    \/ ModelDrop
    \/ ModelEmit(StreamEvents)
    \/ websocket_endpoint_Connecting(StreamMessages)
    \/ websocket_endpoint_Gather
    \/ websocket_endpoint_ConnectFails
    \/ websocket_endpoint_GatherRaises
    \/ send_to_twilio_Top
    \/ send_to_twilio_Wake
    \/ send_to_twilio_Get
    \/ send_to_twilio_Paced
    \/ send_to_twilio_Frame
    \/ receive_from_gemini_Event
    \/ receive_from_gemini_Raises
    \/ handle_user_interruption_Flush
    \/ handle_tool_calls_Drained
    \/ handle_tool_calls_Cancel
    \/ handle_tool_calls_Close
    \/ forward_audio_to_gemini_Receive(StreamMessages)
    \/ forward_audio_to_gemini_Sent
    \/ forward_audio_to_gemini_Raises
    \/ baml_processing_loop_Wake

StreamSpec == Init /\ [][StreamNext]_vars

\* The endpoint has taken a `start` message and holds its stream id.
Started ==
    /\ orchMsg # <<>>
    /\ get(orchMsg[1], "event") = "start"
    /\ "streamSid" \in DOMAIN orchMsg[1]
    /\ stream_sid = orchMsg[1].streamSid

\* The voice-model session was opened or one of the four loops was started.
SessionOpened ==
    \/ gs # "none"
    \/ sndPc # "idle"
    \/ rcvPc # "idle"
    \/ fwdPc # "idle"
    \/ extPc # "idle"

\* The endpoint takes a message other than the one it took last.
TakesInbound == orchMsg' # orchMsg

\* C31: in CONNECTING every message that is not `start` is discarded (nothing
\* but the local `msg` changes); the voice-model session is not opened and no
\* loop is started before a `start` message was taken; every event sent on
\* the transport carries the stream id of that `start` message.
C31_StartGatesSession ==
    /\ [][TakesInbound => orchPc = "connecting"]_vars
    /\ [][TakesInbound /\ get(orchMsg'[1], "event") # "start" =>
            UNCHANGED <<orchPc, stream_sid, clockVars, queryVars, saved, cleanupLog,
                        netVars, flagVars, sndVars, elapsed, sinceSend, rcvVars, fwdVars,
                        extVars, sessVars, chunkVars>>]_vars
    /\ [](SessionOpened => Started)
    /\ [](\A i \in 1..Len(wire) :
            /\ Started
            /\ wire[i].streamSid = orchMsg[1].streamSid)

\* A call that started with the second stream id has sent media, a clear and
\* a close event.
C31_Witness ==
    /\ Started
    /\ orchMsg[1].streamSid = "MZ2"
    /\ \E i, j, k \in 1..Len(wire) :
          /\ wire[i].event = "media"
          /\ wire[j].event = "clear"
          /\ wire[k].event = "close"

\* ------------------------------------------------------------ inbound audio
\* What the peer sends while the call is active: audio of one byte, of two
\* bytes and of none, a mark, a message without an event, a second `start`,
\* and `closed`.
ForwardMessages ==
    {MediaMsg("MZ1", <<1>>), MediaMsg("MZ1", <<2, 3>>), MediaMsg("MZ1", <<>>), MarkMsg,
     [streamSid |-> "MZ1"], StartMsg("MZ1"), ClosedMsg}

ForwardEvents == {EvTransfer}

ForwardNext ==
    \/ PeerDrop
    \/ ModelDrop
    \/ ModelEmit(ForwardEvents)
    \/ websocket_endpoint_Connecting(InboundMessages)
    \/ websocket_endpoint_Gather
    \/ websocket_endpoint_ConnectFails
    \/ websocket_endpoint_GatherRaises
    \/ receive_from_gemini_Event
    \/ receive_from_gemini_Raises
    \/ handle_tool_calls_Cancel
    \/ handle_tool_calls_Close
    \/ forward_audio_to_gemini_Observed(ForwardMessages)
    \/ forward_audio_to_gemini_Sent
    \/ forward_audio_to_gemini_Raises
    \/ baml_processing_loop_Wake

ForwardSpec == Init /\ [][ForwardNext]_vars

IsMediaMsg(m) == get(m, "event") = "media"

\* The audio inputs of the `media` messages of a sequence of messages.
RECURSIVE Inputs(_)
Inputs(ms) ==
    IF ms = <<>> THEN <<>>
    ELSE (IF IsMediaMsg(Head(ms)) THEN <<RealtimeInput(Head(ms))>> ELSE <<>>)
         \o Inputs(Tail(ms))

Front(q) == SubSeq(q, 1, Len(q) - 1)

\* The forwarder takes a message that is neither `media` nor `closed`.
TakesOther ==
    /\ Len(received') = Len(received) + 1
    /\ get(received'[Len(received')], "event") \notin {"media", "closed"}

\* C32: the model session gets exactly one audio input for each `media`
\* message, in the order of arrival (the input of a message that met a
\* closed model session is the only one missing); a message that is neither
\* `media` nor `closed` sends nothing, raises nothing, changes no session
\* state, and leaves the forwarder at the head of its loop.
C32_OneInputPerMedia ==
    /\ [](IF fwdPc = "raised" /\ received # <<>> /\ IsMediaMsg(received[Len(received)])
                /\ Len(realtime_inputs) < Len(Inputs(received))
          THEN realtime_inputs = Inputs(Front(received))
          ELSE realtime_inputs = Inputs(received))
    /\ [][TakesOther =>
            /\ fwdPc' = (IF end_call THEN "done" ELSE "recv")
            /\ UNCHANGED <<realtime_inputs, startVars, clockVars, queryVars, orchVars, netVars,
                           flagVars, sndVars, elapsed, sinceSend, rcvVars, extVars, sessVars,
                           chunkVars>>]_vars

\* Two different audio messages with a mark between them were taken and the
\* forwarder is back at the head of its loop.
C32_Witness ==
    /\ Len(received) = 3
    /\ IsMediaMsg(received[1])
    /\ received[2] = MarkMsg
    /\ IsMediaMsg(received[3])
    /\ received[1] # received[3]
    /\ Len(realtime_inputs) = 2
    /\ fwdPc = "recv"

\* ------------------------------------------------------------ consecutive calls
\* twilio_webhook and ws.accept() of the next call of the caller address,
\* once the endpoint of the previous call has returned and its extraction loop
\* has ended: a new CallSession replaces the one in ACTIVE_SESSIONS, the entry
\* of USER_SESSIONS is created only when there is none, and the call has its
\* own transport, events and loops.
twilio_webhook ==
    /\ orchPc \in {"closed", "raised"}
    /\ extPc \in {"idle", "done"}
    /\ callNo < MaxCalls
    /\ callNo' = callNo + 1
    /\ USER_SESSIONS' = IF USER_SESSIONS = <<>> THEN <<EmptyCallerData>> ELSE USER_SESSIONS
    /\ transcript' = <<>>
    /\ profile' = EmptyProfile
    /\ questions' = <<>>
    /\ orchPc' = "connecting"
    /\ orchMsg' = <<>>
    /\ stream_sid' = "unbound"
    /\ cleanupLog' = <<>>
    /\ ws' = "open"
    /\ gs' = "none"
    /\ wire' = <<>>
    /\ end_call' = FALSE
    /\ user_interrupt' = FALSE
    /\ send_twililo_queue' = <<>>
    /\ sndPc' = "idle"
    /\ sndPart' = 0
    /\ sndIdx' = 0
    /\ sndFrames' = 0
    /\ elapsed' = FrameBudgetMs
    /\ sinceSend' = FrameBudgetMs
    /\ stale' = FALSE
    /\ rcvPc' = "idle"
    /\ inbox' = <<>>
    /\ emitted' = 0
    /\ enqueued' = 0
    /\ termCall' = "none"
    /\ htcResult' = "none"
    /\ executed' = <<>>
    /\ toolResponses' = <<>>
    /\ redirected' = FALSE
    /\ announced' = FALSE
    /\ fwdPc' = "idle"
    /\ received' = <<>>
    /\ realtime_inputs' = <<>>
    /\ extPc' = "idle"
    /\ extracted' = NoExtraction
    /\ conversation_text' = <<>>
    /\ UNCHANGED <<RUN_LOCAL, saved, clockVars, chunkVars, queryVars>>

\* The stores are plain dicts or modal.Dict.
CallsInit ==
    /\ RUN_LOCAL \in BOOLEAN
    /\ SessionInit
    /\ mulaw_bytes = <<>>
    /\ chunked = <<>>
    /\ NoQuery

CallsEvents == {EvHeard}

CallsExtractions ==
    {[profile |-> [name |-> 1, car_preferences |-> <<>>], questions |-> <<2>>],
     [profile |-> [name |-> 0, car_preferences |-> <<1>>], questions |-> <<1>>]}

CallsNext ==
    \/ twilio_webhook
    \/ PeerDrop
    \/ ModelEmit(CallsEvents)
    \/ websocket_endpoint_Connecting(InboundMessages)
    \/ websocket_endpoint_Gather
    \/ websocket_endpoint_ConnectFails
    \/ websocket_endpoint_GatherRaises
    \/ receive_from_gemini_Event
    \/ forward_audio_to_gemini_Receive(InboundMessages)
    \/ forward_audio_to_gemini_Sent
    \/ forward_audio_to_gemini_Raises
    \/ baml_processing_loop_Wake
    \/ baml_processing_loop_Merge(CallsExtractions)

CallsSpec == CallsInit /\ [][CallsNext]_vars

\* The endpoint leaves CONNECTING with a session.
SessionStarts == orchPc = "connecting" /\ orchPc' = "opening"

\* The caller data of the last call that closed, as its record has them.
LastClosed == saved[Len(saved)].data.renter_profile

\* C33: the profile and the questions a call's session starts with are those
\* the previous call of the caller address had when it closed; without an
\* earlier call they are empty.
C33_StartsWithPreviousClose ==
    [][SessionStarts =>
        [profile |-> profile', questions |-> questions'] =
            (IF saved = <<>> THEN EmptyCallerData ELSE LastClosed)]_vars

\* ------------------------------------------------------------ concurrent writers
\* The two extraction requests are in flight.
InFlight == extPc = "extract"

\* The requests have returned and the answers are merged.
MergeStep == InFlight /\ extracted'.kind = "answer"

IsPrefix(p, q) == Len(p) <= Len(q) /\ SubSeq(q, 1, Len(p)) = p

\* C34: while the extraction requests are in flight and when they return, the
\* transcript only grows, so an entry appended in the meantime stays; nothing
\* but the merge writes the profile and the questions, and the merge computes
\* what it writes from the values of the very step that writes them.
C34_NoLostWrites ==
    /\ [][InFlight => IsPrefix(transcript, transcript')]_vars
    /\ [][InFlight /\ extPc' # "extract" => transcript' = transcript]_vars
    /\ [][InFlight /\ ~MergeStep => UNCHANGED <<profile, questions>>]_vars
    /\ [][MergeStep =>
            /\ profile' = Update(profile, extracted'.profile)
            /\ questions' = Sorted(Range(questions \o extracted'.questions))]_vars

\* An entry was appended to the transcript behind those sent with the
\* requests that are in flight.
C34_Witness ==
    /\ InFlight
    /\ conversation_text # <<>>
    /\ Len(transcript) > Len(conversation_text)
    /\ conversation_text = get_conversation_text(SubSeq(transcript, 1, Len(conversation_text)))

\* ------------------------------------------------------------ flag and queue
\* receive_from_gemini is inside handle_user_interruption.
InInterruption == rcvPc = "hui_flush"

\* C35: whenever the receiver is not inside handle_user_interruption, a set
\* interruption flag comes with an empty playback queue.
C35_FlagMeansEmptyQueue ==
    (~InInterruption /\ user_interrupt) => send_twililo_queue = <<>>

\* ------------------------------------------------------------ drain wait
\* handle_tool_calls polls the queue ahead of a terminal tool.
WaitsForDrain == rcvPc = "drain"

\* send_to_twilio is at its loop head or in the sleep of a set flag, and the
\* flag is set.
SenderPaused == sndPc \in {"top", "pause"} /\ user_interrupt

\* C36: the receiver never waits for a queue that is not empty while the
\* sender is paused by the interruption flag.
C36_NoBlockedDrain ==
    ~(WaitsForDrain /\ send_twililo_queue # <<>> /\ SenderPaused)

\* ------------------------------------------------------------ after the cleanup
\* The finally block has stored the caller data and written the record.
Persisted == orchPc = "closed" /\ saved # <<>>

\* C37: once the session is stored and its record is written, no step
\* changes the transcript, the profile or the questions.
C37_QuietAfterPersist ==
    [][Persisted => UNCHANGED <<transcript, profile, questions>>]_vars

====
